---- MODULE Spec2Model ----
(***************************************************************************)
(* The MVCC document collection of go-store (core/collection): version      *)
(* chains, the visibility predicate, buffered transactions, commit,         *)
(* garbage collection and the field indexes maintained at commit.           *)
(*                                                                          *)
(* Concurrency granularity: a step is one critical section of the code.     *)
(* Commit reads the clock BEFORE it takes the registry lock c.mu, so it is  *)
(* three steps (CommitBegin, CommitWrite, CommitClose); garbageCollect      *)
(* releases txmu before it takes c.mu, so it is two (GCBegin, GCSweep).     *)
(* Reads change no state and are operators (read, ReadIn, Read).            *)
(***************************************************************************)
EXTENDS Integers, Sequences, FiniteSets, TLC

(* ------------------------------ bounds --------------------------------- *)
\* Spec: the whole collection (transactions, garbage collection, indexes)
MaxTxn == 3        \* transactions started in one behaviour
MaxOpen == 2       \* transactions open at the same time
MaxTime == 3       \* last reading of the clock
MaxDocs == 1       \* ids handed out by Create
MaxWrites == 1     \* writes buffered by one transaction
MaxSpawned == 1    \* garbageCollect goroutines waiting for gcMu
\* SpecTxn: transactions on a collection with one index, no sweep
TxnMaxTxn == 2
TxnMaxOpen == 2
TxnMaxTime == 3
TxnMaxDocs == 2
TxnMaxWrites == 2
\* SpecStream: one Transaction.Stream over what two transactions committed
StreamMaxTxn == 2
StreamMaxOpen == 1
StreamMaxTime == 2
StreamMaxDocs == 2
StreamMaxWrites == 2
MaxBuffer == 1     \* bufferSize of Stream: 0 (unbuffered) .. MaxBuffer
MaxNext == 3       \* calls of DocumentStream.Next
\* SpecStore: the Store of store.go with one cursor
MaxVersion == 3    \* last value of Store.version (Insert and Update calls)
MaxAdvance == 2    \* Advance(count) with count in -MaxAdvance..MaxAdvance
MaxCalls == 2      \* Update and Delete calls made from goroutines
StoreMaxNext == 4  \* calls of DocumentStream.Next on a stream of the Store
\* CreateIndex of the collection and of the store, side by side
IndexMaxTxn == 1
IndexMaxTime == 2
IndexMaxDocs == 1
IndexMaxWrites == 1
IndexMaxVersion == 1
\* SpecLocks: goroutines calling one collection, by the locks they take
\* SpecProducers: a stream of the collection or of the Store, closed by its consumer
ClosingMaxNext == 1    \* calls of Next on the stream
ClosingMaxVersion == 2 \* documents inserted into the Store
MaxGoroutines == 3 \* goroutines calling the collection at the same time
MaxLockDocs == 1   \* document entries of the collection
\* the collection whose callers keep and change the maps they passed or received
SharedMaxTxn == 2
SharedMaxOpen == 2
SharedMaxTime == 2
SharedMaxDocs == 1
SharedMaxWrites == 2

(* 10*time.Second of maybeGarbageCollect, in clock readings of the model:   *)
(* the sweep is spawned once the clock is more than one reading past        *)
(* lastGCTime.                                                              *)
GCInterval == 1

VARIABLES
    now,            \* time.Now().UnixNano(): non-decreasing, may repeat
    currentTxnID,   \* Collection.currentTxnID
    activeTxns,     \* Collection.activeTxns: set of [txnID, startTime]
    txns,           \* the Transaction objects, by TxnID (sequence)
    documents,      \* Collection.documents: id -> version chain, newest first
    indexes,        \* Collection.indexes: name -> [fields, tree]
    nextDoc,        \* ids generated so far (uuid.NewV7 never repeats)
    lastGCTime,     \* Collection.lastGCTime
    gcSpawned,      \* `go c.garbageCollect()` goroutines not yet past gcMu
    gc,             \* the goroutine holding gcMu: [pc, oldest]
    limit,          \* the bounds of the specification explored (fixed by Init)
    \* collection.DocumentStream (one stream, made by Transaction.Stream)
    ds,             \* the DocumentStream: channels and context, NoStream before
    producer,       \* the streamDocuments goroutine: [pc, docs]
    consumer,       \* the goroutine calling Next: "idle", or "next" inside Next
    out,            \* what the Next calls have returned so far, in order
    \* gostore.Store (store.go) and its cursor
    storeDocuments, \* Store.collection.documents: slot -> Document or NoDocument
    freeSlots,      \* Store.collection.freeSlots
    handles,        \* Store.handles: docID -> [index, indexes]
    storeIndexes,   \* Store.indexes: name -> [fields, tree]
    storeVersion,   \* Store.version
    inserts,        \* Insert calls between collection.Insert and s.mu.Lock
    calls,          \* Update and Delete calls of goroutines: waiting for s.mu, returned
    storeClosed,    \* Store.closed, and whether the Close call has returned
    cursor,         \* the StoreCursor: [handles, position, closed], NoCursor before
    clone,          \* the StoreCursor made by cursor.Clone(), NoCursor before
    written,        \* history: what Insert/Update stored and what the cursor captured
    \* the locks of the MVCC collection
    locks           \* per goroutine: the lock operations still to do, the locks held

collVars == <<now, currentTxnID, activeTxns, txns, documents, indexes, nextDoc,
              lastGCTime, gcSpawned, gc>>
streamVars == <<ds, producer, consumer, out>>
storeVars == <<storeDocuments, freeSlots, handles, storeIndexes, storeVersion, inserts,
               calls, storeClosed, cursor, clone, written>>
\* what the actions of the MVCC collection leave alone
others == <<limit, locks, streamVars, storeVars>>
\* what the calls on the Store and on the first cursor leave alone
storeOthers == <<limit, locks, collVars, streamVars, calls, storeClosed, clone>>
vars == <<limit, locks, collVars, streamVars, storeVars>>

(* ------------------------------ values --------------------------------- *)
\* math.MaxInt and math.MinInt where int has 32 bits (it has 32 or 64, by platform)
MaxInt == 2147483647
MinInt == 0 - MaxInt - 1
TxR == 0
TxRW == 1

IndexNames == {"idx"}
FieldLists == {<<"a">>}
\* the field lists Collection.CreateIndex accepts: the empty one too
AnyFieldLists == FieldLists \cup {<<>>}

NilValue == 0
\* map[string]any: a function from the fields present to their values
EmptyDoc == [f \in {} |-> NilValue]
DocA(v) == [f \in {"a"} |-> v]
Docs == {EmptyDoc, DocA(1), DocA(2)}
\* the arguments of Create/Update over the maps D: a map, or the nil map
DataArgs(D) == {[isNil |-> TRUE, m |-> EmptyDoc]} \cup {[isNil |-> FALSE, m |-> d] : d \in D}

ErrNone == "nil"
ErrTransactionClosed == "ErrTransactionClosed"
ErrReadOnlyTransaction == "ErrReadOnlyTransaction"
ErrInvalidData == "ErrInvalidData"
ErrDocumentNotFound == "ErrDocumentNotFound"
ErrDocumentDeleted == "ErrDocumentDeleted"
ErrStoreClosed == "ErrStoreClosed"
ErrIndexNotFound == "index not found"
ErrIndexAlreadyExists == "index already exists"
ErrStreamClosed == "ErrStreamClosed"
ErrInvalidDocument == "ErrInvalidDocument"
ErrIndexExists == "ErrIndexExists"
ErrEmptyIndex == "ErrEmptyIndex"
ErrStoreIndexNotFound == "ErrIndexNotFound"
\* ds.ctx.Err() after cancel
ErrCanceled == "context canceled"

Min(a, b) == IF a < b THEN a ELSE b

(* --------------------------- field index ------------------------------- *)
\* a []any key or nil: [ok |-> FALSE] is nil, [ok |-> TRUE, values |-> <<>>]
\* the empty non-nil slice
NilKey == [ok |-> FALSE, values |-> <<>>]

RECURSIVE extractFrom(_, _, _)
extractFrom(fields, data, i) ==
    IF i > Len(fields) THEN [ok |-> TRUE, values |-> <<>>]
    ELSE IF fields[i] \notin DOMAIN data \/ data[fields[i]] = NilValue THEN NilKey
    ELSE LET rest == extractFrom(fields, data, i + 1)
         IN  IF rest.ok THEN [ok |-> TRUE, values |-> <<data[fields[i]]>> \o rest.values]
             ELSE NilKey

extractKeyValues(fields, data) == extractFrom(fields, data, 1)

EmptyTree == [k \in {} |-> {}]

addToIndex(tree, docID, keyValues) ==
    IF keyValues \in DOMAIN tree
    THEN [tree EXCEPT ![keyValues] = @ \cup {docID}]
    ELSE [k \in DOMAIN tree \cup {keyValues} |->
             IF k = keyValues THEN {docID} ELSE tree[k]]

\* removeFromIndex that leaves the entry in the tree when its last id goes
removeFromIndexKeepingEntry(tree, docID, keyValues) ==
    IF keyValues \in DOMAIN tree THEN [tree EXCEPT ![keyValues] = @ \ {docID}]
    ELSE tree

removeFromIndex(tree, docID, keyValues) ==
    IF keyValues \in DOMAIN tree
    THEN IF tree[keyValues] \ {docID} = {}
         THEN [k \in DOMAIN tree \ {keyValues} |-> tree[k]]
         ELSE [tree EXCEPT ![keyValues] = @ \ {docID}]
    ELSE tree

insertDocument(fi, id, doc) ==
    LET kv == extractKeyValues(fi.fields, doc)
    IN  IF ~kv.ok THEN fi
        ELSE [fi EXCEPT !.tree = addToIndex(@, id, kv.values)]

\* updateDocument that leaves the id under its old key
updateDocumentKeepingOld(fi, id, prev, cur) ==
    LET newKeyValues == extractKeyValues(fi.fields, cur)
    IN  IF newKeyValues.ok THEN [fi EXCEPT !.tree = addToIndex(@, id, newKeyValues.values)]
        ELSE fi

updateDocument(fi, id, prev, cur) ==
    LET oldKeyValues == extractKeyValues(fi.fields, prev)
        newKeyValues == extractKeyValues(fi.fields, cur)
        removed == IF oldKeyValues.ok
                   THEN removeFromIndex(fi.tree, id, oldKeyValues.values)
                   ELSE fi.tree
        added == IF newKeyValues.ok
                 THEN addToIndex(removed, id, newKeyValues.values)
                 ELSE removed
    IN  IF oldKeyValues = newKeyValues THEN fi
        ELSE [fi EXCEPT !.tree = added]

deleteDocument(fi, docID, doc) ==
    LET kv == extractKeyValues(fi.fields, doc)
    IN  IF ~kv.ok THEN fi
        ELSE [fi EXCEPT !.tree = removeFromIndex(@, docID, kv.values)]

lookup(fi, values) ==
    IF values \in DOMAIN fi.tree THEN fi.tree[values] ELSE {}

\* utils.CompareValues on nil and numbers: -1, 0 or 1
CompareValues(a, b) ==
    IF a = NilValue /\ b = NilValue THEN 0
    ELSE IF a = NilValue THEN -1
    ELSE IF b = NilValue THEN 1
    ELSE IF a < b THEN -1
    ELSE IF a > b THEN 1
    ELSE 0

\* key.Less from position i on: the first differing value decides, then the length
RECURSIVE lessFrom(_, _, _)
lessFrom(k, otherKey, i) ==
    IF i > Min(Len(otherKey), Len(k)) THEN Len(k) < Len(otherKey)
    ELSE IF CompareValues(k[i], otherKey[i]) # 0 THEN CompareValues(k[i], otherKey[i]) < 0
    ELSE lessFrom(k, otherKey, i + 1)

Less(k, otherKey) == lessFrom(k, otherKey, 1)

UnionOf(tree, keys) == UNION {tree[k] : k \in keys}

\* btree.AscendRange(min, max) visits the entries with min <= key < max
lookupRange(fi, minValues, maxValues) ==
    UnionOf(fi.tree, {k \in DOMAIN fi.tree : ~Less(k, minValues) /\ Less(k, maxValues)})

matchesPrefix(k, prefixValues) ==
    /\ Len(k) >= Len(prefixValues)
    /\ \A i \in 1..Len(prefixValues) : CompareValues(k[i], prefixValues[i]) = 0

\* AscendGreaterOrEqual(prefix) stops at the first entry that does not match
lookupPrefix(fi, prefixValues) ==
    LET from == {k \in DOMAIN fi.tree : ~Less(k, prefixValues)}
        visited == {k \in from : \A j \in from :
                                     ~Less(k, j) => matchesPrefix(j, prefixValues)}
    IN  UnionOf(fi.tree, visited)

(* ------------------------- version visibility -------------------------- *)
isVersionVisible(version, txnID, snapshotTime) ==
    IF version.createdTxnID = txnID THEN TRUE
    ELSE IF version.committedTime = 0 THEN FALSE
    ELSE version.committedTime < snapshotTime

\* position in the chain of the version Collection.read returns, 0 if none
RECURSIVE visibleFrom(_, _, _, _)
visibleFrom(chain, i, txnID, snapshotTime) ==
    IF i > Len(chain) THEN 0
    ELSE IF isVersionVisible(chain[i], txnID, snapshotTime) THEN i
    ELSE visibleFrom(chain, i + 1, txnID, snapshotTime)

Result(err, data) == [err |-> err, data |-> data]

read(docs, id, txnID, snapshotTime) ==
    IF id \notin DOMAIN docs THEN Result(ErrDocumentNotFound, EmptyDoc)
    ELSE LET p == visibleFrom(docs[id], 1, txnID, snapshotTime)
         IN  IF p = 0 THEN Result(ErrDocumentNotFound, EmptyDoc)
             ELSE IF docs[id][p].deleted THEN Result(ErrDocumentDeleted, EmptyDoc)
             ELSE Result(ErrNone, docs[id][p].data)

(* --------------------------- transactions ------------------------------ *)
Started == 1..currentTxnID
\* the ids Create has returned, and 0: an id no Create of this collection returned
DocIds == 0..nextDoc

NewWrite(id, delete, data, txnID) ==
    [id |-> id, delete |-> delete, data |-> data, createdTxnID |-> txnID]

\* index of the last buffered write for id, 0 if there is none
RECURSIVE lastWriteFrom(_, _, _)
lastWriteFrom(writes, id, i) ==
    IF i = 0 THEN 0
    ELSE IF writes[i].id = id THEN i
    ELSE lastWriteFrom(writes, id, i - 1)

\* the scan of the buffer run oldest-first: the first write for id wins
RECURSIVE firstWriteFrom(_, _, _)
firstWriteFrom(writes, id, i) ==
    IF i > Len(writes) THEN 0
    ELSE IF writes[i].id = id THEN i
    ELSE firstWriteFrom(writes, id, i + 1)

pendingWriteOldestFirst(writes, id) == firstWriteFrom(writes, id, 1)

pendingWrite(writes, id) == lastWriteFrom(writes, id, Len(writes))

\* Transaction.Read on the transaction object txn (TxnID t) over the registry docs
ReadIn(txn, docs, t, id) ==
    LET i == pendingWrite(txn.writes, id)
    IN  IF txn.closed THEN Result(ErrTransactionClosed, EmptyDoc)
        ELSE IF i # 0
             THEN IF txn.writes[i].delete THEN Result(ErrDocumentDeleted, EmptyDoc)
                  ELSE Result(ErrNone, txn.writes[i].data)
        ELSE read(docs, id, t, txn.TxnTime)

Read(t, id) == ReadIn(txns[t], documents, t, id)

NoResults == [d \in {} |-> EmptyDoc]

\* the loop of ReadAll over c.documents: the visible versions that are not tombstones
visibleDocuments(docs, t, snapshotTime) ==
    LET seen == {id \in DOMAIN docs :
                    LET p == visibleFrom(docs[id], 1, t, snapshotTime)
                    IN  p # 0 /\ ~docs[id][p].deleted}
    IN  [id \in seen |-> docs[id][visibleFrom(docs[id], 1, t, snapshotTime)].data]

\* "Apply any pending writes from this transaction", in buffer order
RECURSIVE applyPendingFrom(_, _, _)
applyPendingFrom(result, writes, i) ==
    IF i > Len(writes) THEN result
    ELSE LET w == writes[i]
             next == IF w.delete
                     THEN [id \in DOMAIN result \ {w.id} |-> result[id]]
                     ELSE [id \in DOMAIN result \cup {w.id} |->
                              IF id = w.id THEN w.data ELSE result[id]]
         IN  applyPendingFrom(next, writes, i + 1)

\* ReadAll that forgets the buffer of the transaction
ReadAllInWithoutBuffer(txn, docs, t) ==
    IF txn.closed THEN Result(ErrTransactionClosed, NoResults)
    ELSE Result(ErrNone, visibleDocuments(docs, t, txn.TxnTime))

ReadAllIn(txn, docs, t) ==
    IF txn.closed THEN Result(ErrTransactionClosed, NoResults)
    ELSE Result(ErrNone, applyPendingFrom(visibleDocuments(docs, t, txn.TxnTime),
                                          txn.writes, 1))

ReadAll(t) == ReadAllIn(txns[t], documents, t)

\* [err, data]: data is the bool Exists returns
Exists(t, id) ==
    IF txns[t].closed THEN Result(ErrTransactionClosed, FALSE)
    ELSE IF Read(t, id).err \in {ErrDocumentNotFound, ErrDocumentDeleted}
         THEN Result(ErrNone, FALSE)
    ELSE IF Read(t, id).err # ErrNone THEN Result(Read(t, id).err, FALSE)
    ELSE Result(ErrNone, TRUE)

\* "Filter by visibility and collect results": the candidates Read returns without error
collectVisible(txn, docs, t, docIDs) ==
    [id \in {d \in docIDs : ReadIn(txn, docs, t, d).err = ErrNone} |->
        ReadIn(txn, docs, t, id).data]

FindByIndexIn(txn, docs, idxs, t, indexName, values) ==
    IF txn.closed THEN Result(ErrTransactionClosed, NoResults)
    ELSE IF indexName \notin DOMAIN idxs THEN Result(ErrIndexNotFound, NoResults)
    ELSE Result(ErrNone, collectVisible(txn, docs, t, lookup(idxs[indexName], values)))

FindByIndex(t, indexName, values) ==
    FindByIndexIn(txns[t], documents, indexes, t, indexName, values)

FindByIndexRange(t, indexName, minValues, maxValues) ==
    IF txns[t].closed THEN Result(ErrTransactionClosed, NoResults)
    ELSE IF indexName \notin DOMAIN indexes THEN Result(ErrIndexNotFound, NoResults)
    ELSE Result(ErrNone, collectVisible(txns[t], documents, t,
                             lookupRange(indexes[indexName], minValues, maxValues)))

FindByIndexPrefix(t, indexName, prefixValues) ==
    IF txns[t].closed THEN Result(ErrTransactionClosed, NoResults)
    ELSE IF indexName \notin DOMAIN indexes THEN Result(ErrIndexNotFound, NoResults)
    ELSE Result(ErrNone, collectVisible(txns[t], documents, t,
                             lookupPrefix(indexes[indexName], prefixValues)))

\* [err, data]: data is the int Count returns
Count(t) ==
    IF txns[t].closed THEN Result(ErrTransactionClosed, 0)
    ELSE Result(ReadAll(t).err, Cardinality(DOMAIN ReadAll(t).data))

\* the error Transaction.Commit returns when it does not reach Collection.write
CommitErr(t) ==
    IF txns[t].closed THEN ErrTransactionClosed ELSE ErrNone

\* the error Transaction.Stream returns
StreamErr(t) ==
    IF txns[t].closed THEN ErrTransactionClosed ELSE ErrNone

\* Create without the check of the mode
CreateErrInAnyMode(t, arg) ==
    IF txns[t].closed THEN ErrTransactionClosed
    ELSE IF arg.isNil THEN ErrInvalidData
    ELSE ErrNone

\* the error Transaction.Create returns
CreateErr(t, arg) ==
    IF txns[t].closed THEN ErrTransactionClosed
    ELSE IF txns[t].mode # TxRW THEN ErrReadOnlyTransaction
    ELSE IF arg.isNil THEN ErrInvalidData
    ELSE ErrNone

\* the error Transaction.Update returns
UpdateErr(t, id, arg) ==
    IF txns[t].closed THEN ErrTransactionClosed
    ELSE IF txns[t].mode # TxRW THEN ErrReadOnlyTransaction
    ELSE IF arg.isNil THEN ErrInvalidData
    ELSE read(documents, id, t, txns[t].TxnTime).err

\* the error Transaction.Delete returns
\* Delete that buffers its write without reading the document
DeleteErrWithoutRead(t, id) ==
    IF txns[t].closed THEN ErrTransactionClosed
    ELSE IF txns[t].mode # TxRW THEN ErrReadOnlyTransaction
    ELSE ErrNone

DeleteErr(t, id) ==
    IF txns[t].closed THEN ErrTransactionClosed
    ELSE IF txns[t].mode # TxRW THEN ErrReadOnlyTransaction
    ELSE read(documents, id, t, txns[t].TxnTime).err

\* maybeGarbageCollect: `go c.garbageCollect()` once the interval has passed
maybeGarbageCollect ==
    IF now - lastGCTime > GCInterval
    THEN gcSpawned' = Min(gcSpawned + 1, MaxSpawned)
    ELSE gcSpawned' = gcSpawned

\* a close that leaves the closed flag unset
closeLeavingOpen(t) ==
    /\ activeTxns' = {a \in activeTxns : a.txnID # t}
    /\ maybeGarbageCollect
    /\ txns' = [txns EXCEPT ![t] = [@ EXCEPT !.writes = <<>>, !.pc = "run",
                                               !.commitTime = 0]]

\* close without Collection.endTransaction
closeKeepingActive(t) ==
    /\ activeTxns' = activeTxns
    /\ maybeGarbageCollect
    /\ txns' = [txns EXCEPT ![t] = [@ EXCEPT !.closed = TRUE, !.writes = <<>>,
                                               !.pc = "run", !.commitTime = 0]]

\* Transaction.close with Collection.endTransaction
close(t) ==
    /\ activeTxns' = {a \in activeTxns : a.txnID # t}
    /\ maybeGarbageCollect
    /\ txns' = [txns EXCEPT ![t] = [@ EXCEPT !.closed = TRUE, !.writes = <<>>,
                                               !.pc = "run", !.commitTime = 0]]

StartTransaction(mode) ==
    /\ currentTxnID < limit.txn /\ Cardinality(activeTxns) < limit.open
    /\ currentTxnID' = currentTxnID + 1
    /\ activeTxns' = activeTxns \cup {[txnID |-> currentTxnID + 1, startTime |-> now]}
    /\ txns' = Append(txns, [TxnTime |-> now, closed |-> FALSE, writes |-> <<>>,
                             mode |-> mode, pc |-> "run", commitTime |-> 0])
    /\ UNCHANGED <<others, now, documents, indexes, nextDoc, lastGCTime, gcSpawned, gc>>

Create(t, arg) ==
    /\ t \in Started /\ txns[t].pc = "run"
    /\ IF CreateErr(t, arg) # ErrNone THEN UNCHANGED vars
       ELSE /\ nextDoc < limit.docs /\ Len(txns[t].writes) < limit.writes
            /\ nextDoc' = nextDoc + 1
            /\ txns' = [txns EXCEPT ![t].writes =
                            Append(@, NewWrite(nextDoc + 1, FALSE, arg.m, t))]
            /\ UNCHANGED <<others, now, currentTxnID, activeTxns, documents, indexes,
                           lastGCTime, gcSpawned, gc>>

Update(t, id, arg) ==
    /\ t \in Started /\ txns[t].pc = "run"
    /\ IF UpdateErr(t, id, arg) # ErrNone THEN UNCHANGED vars
       ELSE /\ Len(txns[t].writes) < limit.writes
            /\ txns' = [txns EXCEPT ![t].writes = Append(@, NewWrite(id, FALSE, arg.m, t))]
            /\ UNCHANGED <<others, now, currentTxnID, activeTxns, documents, indexes, nextDoc,
                           lastGCTime, gcSpawned, gc>>

Delete(t, id) ==
    /\ t \in Started /\ txns[t].pc = "run"
    /\ IF DeleteErr(t, id) # ErrNone THEN UNCHANGED vars
       ELSE /\ Len(txns[t].writes) < limit.writes
            /\ txns' = [txns EXCEPT ![t].writes = Append(@, NewWrite(id, TRUE, EmptyDoc, t))]
            /\ UNCHANGED <<others, now, currentTxnID, activeTxns, documents, indexes, nextDoc,
                           lastGCTime, gcSpawned, gc>>

(* ------------------------------ commit --------------------------------- *)
NewVersion(w, commitTime, deleted) ==
    [createdTxnID |-> w.createdTxnID, committedTime |-> commitTime,
     data |-> w.data, deleted |-> deleted]

\* prev is the chain the new version is prepended to (<<>>: no previous version)
updateIndexesForNewVersion(idxs, docID, prev, newVersion) ==
    LET hasPrevData == prev # <<>> /\ ~prev[1].deleted
    IN  [n \in DOMAIN idxs |->
            IF newVersion.deleted
            THEN IF hasPrevData THEN deleteDocument(idxs[n], docID, prev[1].data)
                 ELSE idxs[n]
            ELSE IF hasPrevData
                 THEN updateDocument(idxs[n], docID, prev[1].data, newVersion.data)
                 ELSE insertDocument(idxs[n], docID, newVersion.data)]

\* st is [docs, idxs, err], the registry under c.mu.Lock
applyWrite(st, w, commitTime) ==
    IF w.id \notin DOMAIN st.docs
    THEN IF w.delete THEN [st EXCEPT !.err = ErrDocumentNotFound]
         ELSE LET newVersion == NewVersion(w, commitTime, FALSE)
              IN  [docs |-> [d \in DOMAIN st.docs \cup {w.id} |->
                                IF d = w.id THEN <<newVersion>> ELSE st.docs[d]],
                   idxs |-> updateIndexesForNewVersion(st.idxs, w.id, <<>>, newVersion),
                   err |-> ErrNone]
    ELSE LET newVersion == NewVersion(w, commitTime, w.delete)
         IN  [docs |-> [st.docs EXCEPT ![w.id] = <<newVersion>> \o @],
              idxs |-> updateIndexesForNewVersion(st.idxs, w.id, st.docs[w.id], newVersion),
              err |-> ErrNone]

\* Collection.write: the writes in order, stopping at the first error
RECURSIVE writeFrom(_, _, _, _)
writeFrom(st, writes, i, commitTime) ==
    IF i > Len(writes) THEN st
    ELSE LET r == applyWrite(st, writes[i], commitTime)
         IN  IF r.err # ErrNone THEN r ELSE writeFrom(r, writes, i + 1, commitTime)

write(docs, idxs, writes, commitTime) ==
    writeFrom([docs |-> docs, idxs |-> idxs, err |-> ErrNone], writes, 1, commitTime)

\* a Rollback that applies the buffer before it closes
RollbackInstalling(t) ==
    /\ t \in Started /\ txns[t].pc = "run"
    /\ IF txns[t].closed THEN UNCHANGED vars
       ELSE /\ close(t)
            /\ LET r == write(documents, indexes, txns[t].writes, now)
               IN  /\ documents' = r.docs
                   /\ indexes' = r.idxs
            /\ UNCHANGED <<others, now, currentTxnID, nextDoc, lastGCTime, gc>>

Rollback(t) ==
    /\ t \in Started /\ txns[t].pc = "run"
    /\ IF txns[t].closed THEN UNCHANGED vars
       ELSE /\ close(t)
            /\ UNCHANGED <<others, now, currentTxnID, documents, indexes, nextDoc, lastGCTime, gc>>

\* Commit up to `commitTime := time.Now().UnixNano()`
CommitBegin(t) ==
    /\ t \in Started /\ txns[t].pc = "run"
    /\ IF txns[t].closed THEN UNCHANGED vars
       ELSE IF txns[t].mode = TxR
       THEN /\ close(t)
            /\ UNCHANGED <<others, now, currentTxnID, documents, indexes, nextDoc, lastGCTime, gc>>
       ELSE /\ txns' = [txns EXCEPT ![t].pc = "write", ![t].commitTime = now]
            /\ UNCHANGED <<others, now, currentTxnID, activeTxns, documents, indexes, nextDoc,
                           lastGCTime, gcSpawned, gc>>

\* Commit inside Collection.write, under c.mu.Lock
CommitWrite(t) ==
    /\ t \in Started /\ txns[t].pc = "write"
    /\ LET r == write(documents, indexes, txns[t].writes, txns[t].commitTime)
       IN  /\ documents' = r.docs
           /\ indexes' = r.idxs
    /\ txns' = [txns EXCEPT ![t].pc = "close"]
    /\ UNCHANGED <<others, now, currentTxnID, activeTxns, nextDoc, lastGCTime, gcSpawned, gc>>

\* Commit's deferred t.close()
CommitClose(t) ==
    /\ t \in Started /\ txns[t].pc = "close"
    /\ close(t)
    /\ UNCHANGED <<others, now, currentTxnID, documents, indexes, nextDoc, lastGCTime, gc>>

(* ------------------------- garbage collection -------------------------- *)
\* first position i whose successor is committed before oldestSnapshotTime, 0 if none
RECURSIVE cutFrom(_, _, _)
cutFrom(chain, i, oldestSnapshotTime) ==
    IF i >= Len(chain) THEN 0
    ELSE IF chain[i + 1].committedTime > 0 /\ chain[i + 1].committedTime < oldestSnapshotTime
         THEN i
    ELSE cutFrom(chain, i + 1, oldestSnapshotTime)

\* [kept, removed]: the chain after the sweep and the versions unlinked
cleanupVersionChain(chain, oldestSnapshotTime) ==
    LET i == cutFrom(chain, 1, oldestSnapshotTime)
    IN  IF i = 0 THEN [kept |-> chain, removed |-> <<>>]
        ELSE [kept |-> SubSeq(chain, 1, i), removed |-> SubSeq(chain, i + 1, Len(chain))]

RECURSIVE cleanupIndexFrom(_, _, _, _)
cleanupIndexFrom(fi, docID, versionChain, i) ==
    IF i > Len(versionChain) THEN fi
    ELSE cleanupIndexFrom(IF versionChain[i].deleted THEN fi
                          ELSE deleteDocument(fi, docID, versionChain[i].data),
                          docID, versionChain, i + 1)

cleanupIndexesForOldVersions(idxs, docID, versionChain) ==
    [n \in DOMAIN idxs |-> cleanupIndexFrom(idxs[n], docID, versionChain, 1)]

\* the loop of garbageCollect over c.documents (a removal touches only its own id)
RECURSIVE sweepFrom(_, _, _, _)
sweepFrom(docs, idxs, ids, oldestSnapshotTime) ==
    IF ids = {} THEN [docs |-> docs, idxs |-> idxs]
    ELSE LET id == CHOOSE d \in ids : TRUE
             c == cleanupVersionChain(docs[id], oldestSnapshotTime)
         IN  sweepFrom([docs EXCEPT ![id] = c.kept],
                       cleanupIndexesForOldVersions(idxs, id, c.removed),
                       ids \ {id}, oldestSnapshotTime)

RECURSIVE minStart(_, _)
minStart(active, least) ==
    IF active = {} THEN least
    ELSE LET a == CHOOSE x \in active : TRUE
         IN  minStart(active \ {a}, Min(a.startTime, least))

\* garbageCollect up to c.txmu.RUnlock()
GCBegin ==
    /\ gcSpawned > 0 /\ gc.pc = "idle"
    /\ gcSpawned' = gcSpawned - 1
    /\ lastGCTime' = now
    /\ gc' = [pc |-> "sweep", oldest |-> minStart(activeTxns, now)]
    /\ UNCHANGED <<others, now, currentTxnID, activeTxns, txns, documents, indexes, nextDoc>>

\* garbageCollect under c.mu.Lock
GCSweep ==
    /\ gc.pc = "sweep"
    /\ LET r == sweepFrom(documents, indexes, DOMAIN documents, gc.oldest)
       IN  /\ documents' = r.docs
           /\ indexes' = r.idxs
    /\ gc' = [pc |-> "idle", oldest |-> 0]
    /\ UNCHANGED <<others, now, currentTxnID, activeTxns, txns, nextDoc, lastGCTime, gcSpawned>>

(* ------------------------------ indexes -------------------------------- *)
\* the latest committed version that is not a tombstone, 0 if none
RECURSIVE backfillFrom(_, _)
backfillFrom(chain, i) ==
    IF i > Len(chain) THEN 0
    ELSE IF chain[i].committedTime > 0 /\ ~chain[i].deleted THEN i
    ELSE backfillFrom(chain, i + 1)

RECURSIVE buildIndex(_, _, _)
buildIndex(fi, docs, ids) ==
    IF ids = {} THEN fi
    ELSE LET id == CHOOSE d \in ids : TRUE
             i == backfillFrom(docs[id], 1)
         IN  buildIndex(IF i = 0 THEN fi ELSE insertDocument(fi, id, docs[id][i].data),
                        docs, ids \ {id})

newFieldIndex(fields) == [fields |-> fields, tree |-> EmptyTree]

\* the error Collection.CreateIndex returns: the name is its only check
CreateIndexErr(name, fields) ==
    IF name \in DOMAIN indexes THEN ErrIndexAlreadyExists ELSE ErrNone

CreateIndex(name, fields) ==
    IF name \in DOMAIN indexes THEN UNCHANGED vars
    ELSE /\ indexes' = [n \in DOMAIN indexes \cup {name} |->
                           IF n = name
                           THEN buildIndex(newFieldIndex(fields), documents, DOMAIN documents)
                           ELSE indexes[n]]
         /\ UNCHANGED <<others, now, currentTxnID, activeTxns, txns, documents, nextDoc,
                        lastGCTime, gcSpawned, gc>>

DropIndex(name) ==
    IF name \notin DOMAIN indexes THEN UNCHANGED vars
    ELSE /\ indexes' = [n \in DOMAIN indexes \ {name} |-> indexes[n]]
         /\ UNCHANGED <<others, now, currentTxnID, activeTxns, txns, documents, nextDoc,
                        lastGCTime, gcSpawned, gc>>

(* ------------------------------- clock --------------------------------- *)
Tick ==
    /\ now < limit.time
    /\ now' = now + 1
    /\ UNCHANGED <<others, currentTxnID, activeTxns, txns, documents, indexes, nextDoc,
                   lastGCTime, gcSpawned, gc>>

(* ----------------------- maps shared with callers ---------------------- *)
\* A map[string]any held by the collection is one a Create or Update call received:
\* the k-th write of transaction txn to id. Create, Update and Collection.write store
\* the reference, so a buffered write and the version installed from it are one map.
MapOfWrite(t, i) ==
    LET writes == txns[t].writes
    IN  [txn |-> t, id |-> writes[i].id,
         k |-> Cardinality({j \in 1..i : writes[j].id = writes[i].id})]

MapOfVersion(id, p) ==
    LET chain == documents[id]
    IN  [txn |-> chain[p].createdTxnID, id |-> id,
         k |-> Cardinality({q \in p..Len(chain) :
                               chain[q].createdTxnID = chain[p].createdTxnID})]

\* the maps of the buffers and of the chains
BufferedMaps ==
    UNION {{MapOfWrite(t, i) : i \in {j \in DOMAIN txns[t].writes : ~txns[t].writes[j].delete}}
           : t \in Started}
VersionMaps ==
    UNION {{MapOfVersion(id, p) : p \in {q \in DOMAIN documents[id] : ~documents[id][q].deleted}}
           : id \in DOMAIN documents}

\* the maps the caller passed to Create or Update
ArgumentMaps == BufferedMaps \cup VersionMaps

\* the maps Transaction.Read returns without a copy: the buffered write of the id
\* (Collection.read returns utils.CopyDocument of the version)
ReadMaps ==
    UNION {{MapOfWrite(t, pendingWrite(txns[t].writes, id)) :
               id \in {d \in DocIds : /\ pendingWrite(txns[t].writes, d) # 0
                                       /\ ~txns[t].writes[pendingWrite(txns[t].writes, d)].delete}}
           : t \in {u \in Started : ~txns[u].closed}}

\* the map of the version of id visible to t, if it is not a tombstone
VisibleMaps(t, id) ==
    IF id \notin DOMAIN documents THEN {}
    ELSE LET p == visibleFrom(documents[id], 1, t, txns[t].TxnTime)
         IN  IF p = 0 \/ documents[id][p].deleted THEN {} ELSE {MapOfVersion(id, p)}

\* the maps Transaction.ReadAll returns: version.data, then write.doc.data over it
ReadAllMaps ==
    UNION {UNION {IF pendingWrite(txns[t].writes, id) = 0 THEN VisibleMaps(t, id)
                  ELSE IF txns[t].writes[pendingWrite(txns[t].writes, id)].delete THEN {}
                  ELSE {MapOfWrite(t, pendingWrite(txns[t].writes, id))}
                  : id \in DocIds}
           : t \in {u \in Started : ~txns[u].closed}}

\* the maps Transaction.Stream sends: version.data
StreamMaps ==
    UNION {UNION {VisibleMaps(t, id) : id \in DocIds}
           : t \in {u \in Started : ~txns[u].closed}}

Vias == {"argument", "Read", "ReadAll", "Stream"}
HeldMaps(via) ==
    CASE via = "argument" -> ArgumentMaps
      [] via = "Read" -> ReadMaps
      [] via = "ReadAll" -> ReadAllMaps
      [] via = "Stream" -> StreamMaps

\* the caller assigns to the keys of a map it holds until its content is m
Mutate(via, ref, m) ==
    /\ ref \in HeldMaps(via)
    /\ txns' = [t \in DOMAIN txns |->
                   [txns[t] EXCEPT !.writes =
                       [i \in DOMAIN txns[t].writes |->
                           IF ~txns[t].writes[i].delete /\ MapOfWrite(t, i) = ref
                           THEN [txns[t].writes[i] EXCEPT !.data = m]
                           ELSE txns[t].writes[i]]]]
    /\ documents' = [id \in DOMAIN documents |->
                        [p \in DOMAIN documents[id] |->
                            IF ~documents[id][p].deleted /\ MapOfVersion(id, p) = ref
                            THEN [documents[id][p] EXCEPT !.data = m]
                            ELSE documents[id][p]]]
    /\ <<txns', documents'>> # <<txns, documents>>
    /\ UNCHANGED <<others, now, currentTxnID, activeTxns, indexes, nextDoc, lastGCTime,
                   gcSpawned, gc>>

(* --------------------------- DocumentStream ---------------------------- *)
\* the orders in which `range t.collection.documents` can visit the ids
Orders(ids) ==
    {o \in [1..Cardinality(ids) -> ids] : \A i, j \in DOMAIN o : i # j => o[i] # o[j]}

\* Transaction.Stream: the visible versions that are not tombstones, then
\* `go ds.streamDocuments(result)`
Stream(t, bufferSize) ==
    /\ t \in Started /\ txns[t].pc = "run"
    /\ ~ds.made
    /\ IF StreamErr(t) # ErrNone THEN UNCHANGED vars
       ELSE LET visible == visibleDocuments(documents, t, txns[t].TxnTime)
            IN  /\ \E o \in Orders(DOMAIN visible) :
                      producer' = [pc |-> "send", i |-> 1,
                                   docs |-> [i \in DOMAIN o |-> visible[o[i]]]]
                /\ ds' = [made |-> TRUE, cap |-> bufferSize, results |-> <<>>,
                          resultsClosed |-> FALSE, errorsClosed |-> FALSE,
                          cancelled |-> FALSE]
                /\ UNCHANGED <<limit, locks, collVars, consumer, out, storeVars>>

\* `ds.results <- entry` can proceed: room in the buffer, or a receiver in Next
canSend == Len(ds.results) < ds.cap \/ consumer = "next"

\* the send of streamDocuments: to the receiver parked in Next, else to the buffer
send(entry) ==
    IF consumer = "next"
    THEN /\ out' = Append(out, Result(ErrNone, entry))
         /\ consumer' = "idle"
         /\ ds' = ds
    ELSE /\ ds' = [ds EXCEPT !.results = Append(@, entry)]
         /\ UNCHANGED <<consumer, out>>

\* one turn of the loop of streamDocuments: the select with its default case
Produce ==
    /\ producer.pc = "send"
    /\ IF producer.i > Len(producer.docs)
       THEN /\ producer' = [producer EXCEPT !.pc = "closeErrors"]
            /\ UNCHANGED <<ds, consumer, out>>
       ELSE \/ /\ canSend
               /\ send(producer.docs[producer.i])
               /\ producer' = [producer EXCEPT !.i = @ + 1]
            \/ /\ ds.cancelled \/ ~canSend
               /\ producer' = [producer EXCEPT !.pc = "closeErrors"]
               /\ UNCHANGED <<ds, consumer, out>>
    /\ UNCHANGED <<limit, locks, collVars, storeVars>>

\* `defer close(ds.errors)`, which runs first; a Next parked in the select takes
\* the errors case, finds no result and returns ErrStreamClosed
CloseErrors ==
    /\ producer.pc = "closeErrors"
    /\ producer' = [producer EXCEPT !.pc = "closeResults"]
    /\ ds' = [ds EXCEPT !.errorsClosed = TRUE]
    /\ IF consumer = "next"
       THEN consumer' = "idle" /\ out' = Append(out, Result(ErrStreamClosed, EmptyDoc))
       ELSE UNCHANGED <<consumer, out>>
    /\ UNCHANGED <<limit, locks, collVars, storeVars>>

\* `defer close(ds.results)`
CloseResults ==
    /\ producer.pc = "closeResults"
    /\ producer' = [producer EXCEPT !.pc = "done"]
    /\ ds' = [ds EXCEPT !.resultsClosed = TRUE]
    /\ IF consumer = "next"
       THEN consumer' = "idle" /\ out' = Append(out, Result(ErrStreamClosed, EmptyDoc))
       ELSE UNCHANGED <<consumer, out>>
    /\ UNCHANGED <<limit, locks, collVars, storeVars>>

\* DocumentStream.Next: the select takes any case that is ready, or parks
Next_ ==
    /\ ds.made /\ consumer = "idle" /\ Len(out) < limit.next
    /\ \/ /\ ds.results # <<>>
          /\ out' = Append(out, Result(ErrNone, Head(ds.results)))
          /\ ds' = [ds EXCEPT !.results = Tail(@)]
          /\ consumer' = consumer
       \/ /\ ds.results = <<>> /\ (ds.resultsClosed \/ ds.errorsClosed)
          /\ out' = Append(out, Result(ErrStreamClosed, EmptyDoc))
          /\ UNCHANGED <<ds, consumer>>
       \/ /\ ds.cancelled
          /\ out' = Append(out, Result(ErrCanceled, EmptyDoc))
          /\ UNCHANGED <<ds, consumer>>
       \/ /\ ds.results = <<>> /\ ~ds.resultsClosed /\ ~ds.errorsClosed /\ ~ds.cancelled
          /\ consumer' = "next"
          /\ UNCHANGED <<ds, out>>
    /\ UNCHANGED <<limit, locks, collVars, producer, storeVars>>

\* DocumentStream.Close: ds.cancel(); a Next parked in the select takes ctx.Done
Close ==
    /\ ds.made
    /\ IF ds.cancelled THEN UNCHANGED vars
       ELSE /\ ds' = [ds EXCEPT !.cancelled = TRUE]
            /\ IF consumer = "next"
               THEN consumer' = "idle" /\ out' = Append(out, Result(ErrCanceled, EmptyDoc))
               ELSE UNCHANGED <<consumer, out>>
            /\ UNCHANGED <<limit, locks, collVars, producer, storeVars>>

(* ------------------------- Store (store.go) ---------------------------- *)
\* the empty maps of NewStore(), and the history before any call
NoIndexes == [n \in {} |-> newFieldIndex(<<>>)]
NoHandles == [d \in {} |-> [index |-> 0, indexes |-> {}]]
NothingWritten == [docs |-> [d \in {} |-> EmptyDoc], snapshot |-> <<>>, index |-> ""]

\* no Update or Delete call of a goroutine yet
NoCalls == [invoked |-> 0, pending |-> {}, results |-> {}]

\* a nil slot of Collection.documents (ids start at 1)
NilDocument == [id |-> 0, data |-> EmptyDoc, version |-> 0]
StoreFieldLists == {<<>>, <<"a">>}

\* Collection.Get(index): [ok, doc]
collectionGet(slots, index) ==
    IF index < 1 \/ index > Len(slots) THEN [ok |-> FALSE, doc |-> NilDocument]
    ELSE IF slots[index] = NilDocument THEN [ok |-> FALSE, doc |-> NilDocument]
    ELSE [ok |-> TRUE, doc |-> slots[index]]

\* an Insert that takes the last slot whether or not it is free
collectionInsertOverLast(slots, free, id, data, ver) ==
    LET doc == [id |-> id, data |-> data, version |-> ver]
    IN  IF Len(slots) > 0
        THEN [slots |-> [slots EXCEPT ![Len(slots)] = doc],
              free |-> free,
              index |-> Len(slots)]
        ELSE [slots |-> Append(slots, doc), free |-> free, index |-> Len(slots) + 1]

\* Collection.Insert: [slots, free, index], reusing the last free slot if there is one
collectionInsert(slots, free, id, data, ver) ==
    LET doc == [id |-> id, data |-> data, version |-> ver]
    IN  IF Len(free) > 0
        THEN [slots |-> [slots EXCEPT ![free[Len(free)]] = doc],
              free |-> SubSeq(free, 1, Len(free) - 1),
              index |-> free[Len(free)]]
        ELSE [slots |-> Append(slots, doc), free |-> free, index |-> Len(slots) + 1]

\* a Collection.Update that stores the data and keeps the version of the slot
collectionUpdateKeepingVersion(slots, index, data, ver) ==
    IF ~collectionGet(slots, index).ok THEN [ok |-> FALSE, slots |-> slots]
    ELSE [ok |-> TRUE, slots |-> [slots EXCEPT ![index] = [@ EXCEPT !.data = data]]]

\* Collection.Update: [ok, slots]
collectionUpdate(slots, index, data, ver) ==
    IF ~collectionGet(slots, index).ok THEN [ok |-> FALSE, slots |-> slots]
    ELSE [ok |-> TRUE,
          slots |-> [slots EXCEPT ![index] = [@ EXCEPT !.data = data, !.version = ver]]]

\* Collection.Delete: [ok, slots, free]
collectionDelete(slots, free, index) ==
    IF ~collectionGet(slots, index).ok THEN [ok |-> FALSE, slots |-> slots, free |-> free]
    ELSE [ok |-> TRUE, slots |-> [slots EXCEPT ![index] = NilDocument],
          free |-> Append(free, index)]

\* fieldIndex.insertDocument(handle) of store.go: [ok, fi]
storeInsertDocument(fi, slots, id, index) ==
    LET got == collectionGet(slots, index)
        keyValues == extractKeyValues(fi.fields, got.doc.data)
    IN  IF ~got.ok \/ ~keyValues.ok THEN [ok |-> FALSE, fi |-> fi]
        ELSE [ok |-> TRUE, fi |-> [fi EXCEPT !.tree = addToIndex(@, id, keyValues.values)]]

\* an updateDocument that leaves the id under its old key
storeUpdateDocumentKeepingOld(fi, slots, id, index, oldData) ==
    LET got == collectionGet(slots, index)
        oldKeyValues == extractKeyValues(fi.fields, oldData)
        newKeyValues == extractKeyValues(fi.fields, got.doc.data)
        added == IF newKeyValues.ok
                 THEN addToIndex(fi.tree, id, newKeyValues.values)
                 ELSE fi.tree
    IN  IF ~got.ok THEN [ok |-> FALSE, fi |-> fi]
        ELSE IF oldKeyValues = newKeyValues THEN [ok |-> oldKeyValues.ok, fi |-> fi]
        ELSE [ok |-> oldKeyValues.ok \/ newKeyValues.ok, fi |-> [fi EXCEPT !.tree = added]]

\* fieldIndex.updateDocument(handle, oldData) of store.go: [ok, fi]
storeUpdateDocument(fi, slots, id, index, oldData) ==
    LET got == collectionGet(slots, index)
        oldKeyValues == extractKeyValues(fi.fields, oldData)
        newKeyValues == extractKeyValues(fi.fields, got.doc.data)
        removed == IF oldKeyValues.ok
                   THEN removeFromIndex(fi.tree, id, oldKeyValues.values)
                   ELSE fi.tree
        added == IF newKeyValues.ok
                 THEN addToIndex(removed, id, newKeyValues.values)
                 ELSE removed
    IN  IF ~got.ok THEN [ok |-> FALSE, fi |-> fi]
        ELSE IF oldKeyValues = newKeyValues THEN [ok |-> oldKeyValues.ok, fi |-> fi]
        ELSE [ok |-> oldKeyValues.ok \/ newKeyValues.ok, fi |-> [fi EXCEPT !.tree = added]]

\* the error Store.Update and Store.Delete return under s.mu.Lock()
lockedErr(docID) ==
    IF docID \notin DOMAIN handles THEN ErrDocumentNotFound
    ELSE IF ~collectionGet(storeDocuments, handles[docID].index).ok THEN ErrDocumentDeleted
    ELSE ErrNone

\* the error Store.Update returns before s.mu.Lock(), ErrNone if it goes on
StoreUpdateEarlyErr(arg) ==
    IF storeClosed.closed THEN ErrStoreClosed
    ELSE IF arg.isNil THEN ErrInvalidDocument
    ELSE ErrNone

\* the error Store.Update returns
StoreUpdateErr(docID, arg) ==
    IF StoreUpdateEarlyErr(arg) # ErrNone THEN StoreUpdateEarlyErr(arg)
    ELSE lockedErr(docID)

\* a Delete that does not look at s.closed
StoreDeleteErrWhenClosed(docID) ==
    IF docID \notin DOMAIN handles THEN ErrDocumentNotFound
    ELSE IF ~collectionGet(storeDocuments, handles[docID].index).ok THEN ErrDocumentDeleted
    ELSE ErrNone

\* the error Store.Delete returns
StoreDeleteErr(docID) ==
    IF storeClosed.closed THEN ErrStoreClosed
    ELSE lockedErr(docID)

\* the error Store.CreateIndex returns
StoreCreateIndexErr(indexName, fields) ==
    IF storeClosed.closed THEN ErrStoreClosed
    ELSE IF Len(fields) = 0 THEN ErrEmptyIndex
    ELSE IF indexName \in DOMAIN storeIndexes THEN ErrIndexExists
    ELSE ErrNone

\* the error Store.Insert returns
StoreInsertErr(arg) ==
    IF storeClosed.closed THEN ErrStoreClosed
    ELSE IF arg.isNil THEN ErrInvalidDocument
    ELSE ErrNone

\* the error Store.DropIndex returns
StoreDropIndexErr(indexName) ==
    IF storeClosed.closed THEN ErrStoreClosed
    ELSE IF indexName \notin DOMAIN storeIndexes THEN ErrStoreIndexNotFound
    ELSE ErrNone

\* Store.Insert up to s.mu.Lock(): the id, the version and the slot
StoreInsertBegin(arg) ==
    IF StoreInsertErr(arg) # ErrNone THEN UNCHANGED vars
    ELSE /\ storeVersion < limit.versions
         /\ LET r == collectionInsert(storeDocuments, freeSlots, storeVersion + 1, arg.m,
                                      storeVersion + 1)
            IN  /\ storeDocuments' = r.slots
                /\ freeSlots' = r.free
                /\ inserts' = inserts \cup {[id |-> storeVersion + 1, index |-> r.index]}
         /\ storeVersion' = storeVersion + 1
         /\ UNCHANGED <<storeOthers, handles, storeIndexes, cursor, written>>

\* Store.Insert under s.mu.Lock(): every index, then the handle entry
StoreInsertEnd(call) ==
    /\ call \in inserts
    /\ inserts' = inserts \ {call}
    /\ LET r == [n \in DOMAIN storeIndexes |->
                    storeInsertDocument(storeIndexes[n], storeDocuments, call.id, call.index)]
       IN  /\ storeIndexes' = [n \in DOMAIN storeIndexes |-> r[n].fi]
           /\ handles' = [d \in DOMAIN handles \cup {call.id} |->
                             IF d = call.id
                             THEN [index |-> call.index,
                                   indexes |-> {n \in DOMAIN storeIndexes : r[n].ok}]
                             ELSE handles[d]]
    /\ written' = [written EXCEPT !.docs =
                      [d \in DOMAIN @ \cup {call.id} |->
                          IF d = call.id THEN storeDocuments[call.index].data ELSE @[d]]]
    /\ UNCHANGED <<storeOthers, storeDocuments, freeSlots, storeVersion,
                   cursor>>

\* Store.Update under s.mu.Lock() once the handle and the document are found
updateLocked(docID, arg) ==
    /\ storeVersion < limit.versions
    /\ storeVersion' = storeVersion + 1
    /\ LET index == handles[docID].index
           currentData == collectionGet(storeDocuments, index).doc.data
           updated == collectionUpdate(storeDocuments, index, arg.m, storeVersion + 1)
           r == [n \in DOMAIN storeIndexes |->
                    storeUpdateDocument(storeIndexes[n], updated.slots, docID, index,
                                        currentData)]
       IN  /\ storeDocuments' = updated.slots
           /\ storeIndexes' = [n \in DOMAIN storeIndexes |-> r[n].fi]
           /\ handles' = [handles EXCEPT ![docID].indexes =
                              {n \in DOMAIN storeIndexes : r[n].ok}]
    /\ written' = [written EXCEPT !.docs[docID] = arg.m]
    /\ UNCHANGED <<freeSlots, inserts, cursor>>

\* Store.Update by a caller that makes no other call meanwhile
StoreUpdate(docID, arg) ==
    IF StoreUpdateErr(docID, arg) # ErrNone THEN UNCHANGED vars
    ELSE updateLocked(docID, arg) /\ UNCHANGED storeOthers

\* Store.Delete under s.mu.Lock() once the handle and the document are found
deleteLocked(docID) ==
    /\ LET index == handles[docID].index
           docData == collectionGet(storeDocuments, index).doc.data
           deleted == collectionDelete(storeDocuments, freeSlots, index)
       IN  /\ storeIndexes' = [n \in DOMAIN storeIndexes |->
                                  IF n \in handles[docID].indexes
                                  THEN deleteDocument(storeIndexes[n], docID, docData)
                                  ELSE storeIndexes[n]]
           /\ storeDocuments' = deleted.slots
           /\ freeSlots' = deleted.free
    /\ handles' = [d \in DOMAIN handles \ {docID} |-> handles[d]]
    /\ written' = [written EXCEPT !.docs = [d \in DOMAIN @ \ {docID} |-> @[d]]]
    /\ UNCHANGED <<storeVersion, inserts, cursor>>

\* Store.Delete by a caller that makes no other call meanwhile
StoreDelete(docID) ==
    IF StoreDeleteErr(docID) # ErrNone THEN UNCHANGED vars
    ELSE deleteLocked(docID) /\ UNCHANGED storeOthers

\* a call of a goroutine: the n-th invoked, and whether the document had a handle then
Call(op, docID, arg) ==
    [n |-> calls.invoked + 1, op |-> op, docID |-> docID, arg |-> arg,
     existed |-> docID \in DOMAIN handles]
\* the call returns err while the calls of `waiting` are between invocation and return
Returned(call, err, waiting) ==
    [call |-> call, err |-> err, overlapped |-> {c.n : c \in waiting \ {call}}]

\* `go s.Update(docID, doc)` up to s.mu.Lock()
StoreUpdateBegin(docID, arg) ==
    /\ calls.invoked < limit.calls
    /\ LET call == Call("Update", docID, arg)
       IN  calls' = IF StoreUpdateEarlyErr(arg) # ErrNone
                    THEN [calls EXCEPT !.invoked = @ + 1,
                                       !.results = @ \cup {Returned(call, StoreUpdateEarlyErr(arg),
                                                                    calls.pending)}]
                    ELSE [calls EXCEPT !.invoked = @ + 1, !.pending = @ \cup {call}]
    /\ UNCHANGED <<limit, locks, collVars, streamVars, storeDocuments, freeSlots, handles,
                   storeIndexes, storeVersion, inserts, storeClosed, cursor, clone, written>>

\* `go s.Delete(docID)` up to s.mu.Lock()
StoreDeleteBegin(docID) ==
    /\ calls.invoked < limit.calls
    /\ LET call == Call("Delete", docID, [isNil |-> TRUE, m |-> EmptyDoc])
       IN  calls' = IF storeClosed.closed
                    THEN [calls EXCEPT !.invoked = @ + 1,
                                       !.results = @ \cup {Returned(call, ErrStoreClosed,
                                                                    calls.pending)}]
                    ELSE [calls EXCEPT !.invoked = @ + 1, !.pending = @ \cup {call}]
    /\ UNCHANGED <<limit, locks, collVars, streamVars, storeDocuments, freeSlots, handles,
                   storeIndexes, storeVersion, inserts, storeClosed, cursor, clone, written>>

\* what a Store.Get call returned: the error, and the id, data and version of the
\* Document it took from the collection
GetReturned(call, err, doc) ==
    [call |-> call, err |-> err, id |-> doc.id, data |-> doc.data, version |-> doc.version]

\* Store.Get(docID) up to s.mu.RUnlock(): the handle is read under the lock
StoreGetBegin(docID) ==
    /\ calls.invoked < limit.calls
    /\ LET call == [n |-> calls.invoked + 1, op |-> "Get", docID |-> docID,
                    index |-> IF docID \in DOMAIN handles THEN handles[docID].index ELSE 0]
           nothing == [id |-> 0, data |-> EmptyDoc, version |-> 0]
       IN  calls' = IF storeClosed.closed
                    THEN [calls EXCEPT !.invoked = @ + 1,
                                       !.results = @ \cup {GetReturned(call, ErrStoreClosed,
                                                                       nothing)}]
                    ELSE IF docID \notin DOMAIN handles
                    THEN [calls EXCEPT !.invoked = @ + 1,
                                       !.results = @ \cup {GetReturned(call, ErrDocumentNotFound,
                                                                       nothing)}]
                    ELSE [calls EXCEPT !.invoked = @ + 1, !.pending = @ \cup {call}]
    /\ UNCHANGED <<limit, locks, collVars, streamVars, storeDocuments, freeSlots, handles,
                   storeIndexes, storeVersion, inserts, storeClosed, cursor, clone, written>>

\* the rest of Store.Get: s.collection.Get(entry.handle.index), without s.mu
StoreGetEnd(call) ==
    /\ call \in calls.pending /\ call.op = "Get"
    /\ LET got == collectionGet(storeDocuments, call.index)
           nothing == [id |-> 0, data |-> EmptyDoc, version |-> 0]
       IN  calls' = [calls EXCEPT !.pending = @ \ {call},
                                  !.results = @ \cup
                                      {IF ~got.ok
                                       THEN GetReturned(call, ErrDocumentDeleted, nothing)
                                       ELSE GetReturned(call, ErrNone, got.doc)}]
    /\ UNCHANGED <<limit, locks, collVars, streamVars, storeDocuments, freeSlots, handles,
                   storeIndexes, storeVersion, inserts, storeClosed, cursor, clone, written>>

\* the rest of a Store.Update or Store.Delete call, from s.mu.Lock() to the return
StoreCallEnd(call) ==
    /\ call \in calls.pending
    /\ calls' = [calls EXCEPT !.pending = @ \ {call},
                              !.results = @ \cup {Returned(call, lockedErr(call.docID),
                                                           calls.pending)}]
    /\ IF lockedErr(call.docID) # ErrNone
       THEN UNCHANGED <<storeDocuments, freeSlots, handles, storeIndexes, storeVersion,
                        inserts, cursor, written>>
       ELSE IF call.op = "Update" THEN updateLocked(call.docID, call.arg)
       ELSE deleteLocked(call.docID)
    /\ UNCHANGED <<limit, locks, collVars, streamVars, storeClosed, clone>>

StoreCreateIndex(indexName, fields) ==
    IF StoreCreateIndexErr(indexName, fields) # ErrNone THEN UNCHANGED vars
    ELSE /\ LET RECURSIVE populate(_, _)
                populate(fi, ids) ==
                    IF ids = {} THEN fi
                    ELSE LET d == CHOOSE x \in ids : TRUE
                         IN  populate(storeInsertDocument(fi, storeDocuments, d,
                                                          handles[d].index).fi,
                                      ids \ {d})
                index == newFieldIndex(fields)
            IN  /\ storeIndexes' = [n \in DOMAIN storeIndexes \cup {indexName} |->
                                       IF n = indexName
                                       THEN populate(index, DOMAIN handles)
                                       ELSE storeIndexes[n]]
                /\ handles' = [d \in DOMAIN handles |->
                                  IF storeInsertDocument(index, storeDocuments, d,
                                                         handles[d].index).ok
                                  THEN [handles[d] EXCEPT !.indexes = @ \cup {indexName}]
                                  ELSE handles[d]]
         /\ UNCHANGED <<storeOthers, storeDocuments, freeSlots,
                        storeVersion, inserts, cursor, written>>

StoreDropIndex(indexName) ==
    IF StoreDropIndexErr(indexName) # ErrNone THEN UNCHANGED vars
    ELSE /\ handles' = [d \in DOMAIN handles |->
                           [handles[d] EXCEPT !.indexes = @ \ {indexName}]]
         /\ storeIndexes' = [n \in DOMAIN storeIndexes \ {indexName} |-> storeIndexes[n]]
         /\ UNCHANGED <<storeOthers, storeDocuments, freeSlots,
                        storeVersion, inserts, cursor, written>>

\* Store.Get(docID): [err, data, version]
StoreGet(docID) ==
    IF storeClosed.closed
    THEN [err |-> ErrStoreClosed, data |-> EmptyDoc, version |-> 0]
    ELSE IF docID \notin DOMAIN handles
    THEN [err |-> ErrDocumentNotFound, data |-> EmptyDoc, version |-> 0]
    ELSE LET got == collectionGet(storeDocuments, handles[docID].index)
         IN  IF ~got.ok THEN [err |-> ErrDocumentDeleted, data |-> EmptyDoc, version |-> 0]
             ELSE [err |-> ErrNone, data |-> got.doc.data, version |-> got.doc.version]

\* collectDocumentResults: the ids that have a handle and a document
collectDocumentResults(docIDs) ==
    {d \in docIDs : d \in DOMAIN handles
                    /\ collectionGet(storeDocuments, handles[d].index).ok}

\* Store.Lookup(indexName, values): [err, ids]
StoreLookup(indexName, values) ==
    IF storeClosed.closed THEN [err |-> ErrStoreClosed, ids |-> {}]
    ELSE IF indexName \notin DOMAIN storeIndexes
    THEN [err |-> ErrStoreIndexNotFound, ids |-> {}]
    ELSE [err |-> ErrNone,
          ids |-> collectDocumentResults(lookup(storeIndexes[indexName], values))]

\* Store.LookupRange(indexName, minValues, maxValues): [err, ids]
StoreLookupRange(indexName, minValues, maxValues) ==
    IF storeClosed.closed THEN [err |-> ErrStoreClosed, ids |-> {}]
    ELSE IF indexName \notin DOMAIN storeIndexes
    THEN [err |-> ErrStoreIndexNotFound, ids |-> {}]
    ELSE [err |-> ErrNone,
          ids |-> collectDocumentResults(
                      lookupRange(storeIndexes[indexName], minValues, maxValues))]

\* the error Store.Clone returns: CreateIndex on the new store cannot fail, the index
\* names of a map are distinct and registered indexes have fields
StoreCloneErr == IF storeClosed.closed THEN ErrStoreClosed ELSE ErrNone

\* Store.Close up to s.mu.Lock(): the flag
StoreCloseBegin ==
    /\ ~storeClosed.closed
    /\ storeClosed' = [storeClosed EXCEPT !.closed = TRUE]
    /\ UNCHANGED <<limit, locks, collVars, streamVars, storeDocuments, freeSlots, handles,
                   storeIndexes, storeVersion, inserts, calls, cursor, clone, written>>

\* Store.Close under s.mu.Lock(): clear(s.handles), clear(s.indexes), return
StoreCloseEnd ==
    /\ storeClosed.closed /\ ~storeClosed.returned
    /\ storeClosed' = [storeClosed EXCEPT !.returned = TRUE]
    /\ handles' = NoHandles
    /\ storeIndexes' = NoIndexes
    /\ written' = [written EXCEPT !.docs = NothingWritten.docs]
    /\ UNCHANGED <<limit, locks, collVars, streamVars, storeDocuments, freeSlots, storeVersion,
                   inserts, calls, cursor, clone>>

(* --------------------- Store.Stream (store.go) -------------------------- *)
\* Collection.GetAllValid: a copy of every slot that holds a document, in slot order
GetAllValid(slots) == SelectSeq(slots, LAMBDA doc : doc # NilDocument)

\* NewDocumentStream, with what the store held when Stream was called (for the claims)
NewDocumentStream(bufferSize) ==
    [made |-> TRUE, cap |-> bufferSize, results |-> <<>>, errors |-> <<>>,
     resultsClosed |-> FALSE, errorsClosed |-> FALSE, cancelled |-> FALSE,
     refused |-> storeClosed.closed,
     stored |-> written.docs, inserting |-> {call.id : call \in inserts}]

\* DocumentResult and the error Next returns with it
StoreResult(err, doc) == [err |-> err, doc |-> doc]

\* Store.Stream: on a closed store the goroutine of closeStreamWithError, else
\* GetAllValid and `go s.streamDocuments(ds, documents)`
StoreStream(bufferSize) ==
    /\ ~ds.made
    /\ ds' = NewDocumentStream(bufferSize)
    /\ producer' = IF storeClosed.closed
                   THEN [pc |-> "sendErr", i |-> 0, docs |-> <<>>]
                   ELSE [pc |-> "send", i |-> 1, docs |-> GetAllValid(storeDocuments)]
    /\ UNCHANGED <<limit, locks, collVars, consumer, out, storeVars>>

\* the goroutine of closeStreamWithError: `ds.errors <- err` into the buffer of one,
\* or to the Next parked in the select
StoreSendErr ==
    /\ producer.pc = "sendErr"
    /\ producer' = [producer EXCEPT !.pc = "closeErrors"]
    /\ IF consumer = "next"
       THEN /\ consumer' = "idle"
            /\ out' = Append(out, StoreResult(ErrStoreClosed, NilDocument))
            /\ ds' = ds
       ELSE /\ ds' = [ds EXCEPT !.errors = Append(@, ErrStoreClosed)]
            /\ UNCHANGED <<consumer, out>>
    /\ UNCHANGED <<limit, locks, collVars, storeVars>>

\* the send of Store.streamDocuments: to the receiver parked in Next, else to the buffer
storeSend(doc) ==
    IF consumer = "next"
    THEN /\ out' = Append(out, StoreResult(ErrNone, doc))
         /\ consumer' = "idle"
         /\ ds' = ds
    ELSE /\ ds' = [ds EXCEPT !.results = Append(@, doc)]
         /\ UNCHANGED <<consumer, out>>

\* a producer whose send gives up when the channel cannot take the result at once
StoreProduceGivingUp ==
    /\ producer.pc = "send"
    /\ IF producer.i > Len(producer.docs)
       THEN /\ producer' = [producer EXCEPT !.pc = "closeErrors"]
            /\ UNCHANGED <<ds, consumer, out>>
       ELSE \/ /\ canSend
               /\ storeSend(producer.docs[producer.i])
               /\ producer' = [producer EXCEPT !.i = @ + 1]
            \/ /\ ds.cancelled \/ ~canSend
               /\ producer' = [producer EXCEPT !.pc = "closeErrors"]
               /\ UNCHANGED <<ds, consumer, out>>
    /\ UNCHANGED <<limit, locks, collVars, storeVars>>

\* a producer whose send does not watch ctx.Done
StoreProduceIgnoringCancel ==
    /\ producer.pc = "send"
    /\ IF producer.i > Len(producer.docs)
       THEN /\ producer' = [producer EXCEPT !.pc = "closeErrors"]
            /\ UNCHANGED <<ds, consumer, out>>
       ELSE /\ canSend
            /\ storeSend(producer.docs[producer.i])
            /\ producer' = [producer EXCEPT !.i = @ + 1]
    /\ UNCHANGED <<limit, locks, collVars, storeVars>>

\* one turn of the loop of Store.streamDocuments: the send waits for room or for a
\* receiver, and ctx.Done ends the loop
StoreProduce ==
    /\ producer.pc = "send"
    /\ IF producer.i > Len(producer.docs)
       THEN /\ producer' = [producer EXCEPT !.pc = "closeErrors"]
            /\ UNCHANGED <<ds, consumer, out>>
       ELSE \/ /\ canSend
               /\ storeSend(producer.docs[producer.i])
               /\ producer' = [producer EXCEPT !.i = @ + 1]
            \/ /\ ds.cancelled
               /\ producer' = [producer EXCEPT !.pc = "closeErrors"]
               /\ UNCHANGED <<ds, consumer, out>>
    /\ UNCHANGED <<limit, locks, collVars, storeVars>>

\* what a Next parked in the select returns when a channel is closed
storeWake ==
    IF consumer = "next"
    THEN consumer' = "idle" /\ out' = Append(out, StoreResult(ErrStreamClosed, NilDocument))
    ELSE UNCHANGED <<consumer, out>>

\* `defer close(ds.errors)`, which runs first
StoreCloseErrors ==
    /\ producer.pc = "closeErrors"
    /\ producer' = [producer EXCEPT !.pc = "closeResults"]
    /\ ds' = [ds EXCEPT !.errorsClosed = TRUE]
    /\ storeWake
    /\ UNCHANGED <<limit, locks, collVars, storeVars>>

\* `defer close(ds.results)`
StoreCloseResults ==
    /\ producer.pc = "closeResults"
    /\ producer' = [producer EXCEPT !.pc = "done"]
    /\ ds' = [ds EXCEPT !.resultsClosed = TRUE]
    /\ storeWake
    /\ UNCHANGED <<limit, locks, collVars, storeVars>>

\* DocumentStream.Next of store.go: the select takes any case that is ready, or parks;
\* on the closed errors channel it still takes a buffered result. A producer waiting
\* in its send on the unbuffered channel makes the results case ready
StoreNext ==
    /\ ds.made /\ consumer = "idle" /\ Len(out) < limit.next
    /\ \/ /\ ds.results # <<>>
          /\ out' = Append(out, StoreResult(ErrNone, Head(ds.results)))
          /\ ds' = [ds EXCEPT !.results = Tail(@)]
          /\ UNCHANGED <<consumer, producer>>
       \/ /\ ds.cap = 0 /\ producer.pc = "send" /\ producer.i <= Len(producer.docs)
          /\ out' = Append(out, StoreResult(ErrNone, producer.docs[producer.i]))
          /\ producer' = [producer EXCEPT !.i = @ + 1]
          /\ UNCHANGED <<ds, consumer>>
       \/ /\ ds.errors # <<>>
          /\ out' = Append(out, StoreResult(Head(ds.errors), NilDocument))
          /\ ds' = [ds EXCEPT !.errors = Tail(@)]
          /\ UNCHANGED <<consumer, producer>>
       \/ /\ ds.results = <<>>
          /\ ds.resultsClosed \/ (ds.errorsClosed /\ ds.errors = <<>>)
          /\ out' = Append(out, StoreResult(ErrStreamClosed, NilDocument))
          /\ UNCHANGED <<ds, consumer, producer>>
       \/ /\ ds.cancelled
          /\ out' = Append(out, StoreResult(ErrCanceled, NilDocument))
          /\ UNCHANGED <<ds, consumer, producer>>
       \/ /\ ds.results = <<>> /\ ds.errors = <<>>
          /\ ~ds.resultsClosed /\ ~ds.errorsClosed /\ ~ds.cancelled
          /\ consumer' = "next"
          /\ UNCHANGED <<ds, out, producer>>
    /\ UNCHANGED <<limit, locks, collVars, storeVars>>

\* DocumentStream.Close of store.go: ds.cancel(); a Next parked in the select takes
\* ctx.Done
StoreStreamClose ==
    /\ ds.made
    /\ IF ds.cancelled THEN UNCHANGED vars
       ELSE /\ ds' = [ds EXCEPT !.cancelled = TRUE]
            /\ IF consumer = "next"
               THEN /\ consumer' = "idle"
                    /\ out' = Append(out, StoreResult(ErrCanceled, NilDocument))
               ELSE UNCHANGED <<consumer, out>>
            /\ UNCHANGED <<limit, locks, collVars, producer, storeVars>>

(* ----------------------------- StoreCursor ----------------------------- *)
\* the data the documents of the handles hs have now (history of the snapshot)
captured(hs) == [i \in DOMAIN hs |-> collectionGet(storeDocuments, hs[i].index).doc.data]

\* sort.Slice(handles, by index)
sortedByIndex(ids) ==
    CHOOSE o \in Orders(ids) :
        \A i, j \in DOMAIN o : i < j => handles[o[i]].index < handles[o[j]].index

newCursor(order) ==
    [made |-> TRUE, position |-> 0, closed |-> FALSE,
     handles |-> [i \in DOMAIN order |-> [id |-> order[i], index |-> handles[order[i]].index]]]

\* the errors Store.Read and Store.ReadIndex return
StoreReadErr == IF storeClosed.closed THEN ErrStoreClosed ELSE ErrNone
StoreReadIndexErr(indexName) ==
    IF storeClosed.closed THEN ErrStoreClosed
    ELSE IF indexName \notin DOMAIN storeIndexes THEN ErrStoreIndexNotFound
    ELSE ErrNone

\* Store.Read
StoreRead ==
    /\ ~cursor.made /\ StoreReadErr = ErrNone
    /\ cursor' = newCursor(sortedByIndex(DOMAIN handles))
    /\ written' = [written EXCEPT !.snapshot = captured(cursor'.handles), !.index = ""]
    /\ UNCHANGED <<storeOthers, storeDocuments, freeSlots, handles,
                   storeIndexes, storeVersion, inserts>>

\* Store.ReadIndex: the handles that list the index, in the order of `range s.handles`
StoreReadIndex(indexName) ==
    /\ ~cursor.made
    /\ IF StoreReadIndexErr(indexName) # ErrNone THEN UNCHANGED vars
       ELSE /\ \E o \in Orders({d \in DOMAIN handles : indexName \in handles[d].indexes}) :
                  cursor' = newCursor(o)
            /\ written' = [written EXCEPT !.snapshot = captured(cursor'.handles),
                                          !.index = indexName]
            /\ UNCHANGED <<storeOthers, storeDocuments, freeSlots, handles,
                           storeIndexes, storeVersion, inserts>>

\* sc.getDocumentAt(index), index counted from 0
getDocumentOf(sc, index) ==
    IF index < 0 \/ index >= Len(sc.handles) THEN Result("index out of bounds", EmptyDoc)
    ELSE LET got == collectionGet(storeDocuments, sc.handles[index + 1].index)
         IN  IF ~got.ok THEN Result(ErrDocumentDeleted, EmptyDoc)
             ELSE Result(ErrNone, got.doc.data)

\* what sc.Next() returns: [err, found, data, more], found FALSE for a nil document
nextResultOf(sc) ==
    IF sc.closed THEN [err |-> ErrStreamClosed, found |-> FALSE, data |-> EmptyDoc,
                       more |-> FALSE]
    ELSE IF sc.position >= Len(sc.handles)
    THEN [err |-> ErrNone, found |-> FALSE, data |-> EmptyDoc, more |-> FALSE]
    ELSE IF getDocumentOf(sc, sc.position).err # ErrNone
    THEN [err |-> getDocumentOf(sc, sc.position).err, found |-> FALSE, data |-> EmptyDoc,
          more |-> FALSE]
    ELSE [err |-> ErrNone, found |-> TRUE, data |-> getDocumentOf(sc, sc.position).data,
          more |-> sc.position + 1 < Len(sc.handles)]

\* sc after sc.Next()
nextOf(sc) ==
    IF sc.closed \/ sc.position >= Len(sc.handles) THEN sc
    ELSE [sc EXCEPT !.position = @ + 1]

\* the cursor made by Store.Read or Store.ReadIndex
getDocumentAt(index) == getDocumentOf(cursor, index)
NextResult == nextResultOf(cursor)

\* StoreCursor.Next
CursorNext ==
    /\ cursor.made
    /\ IF cursor.closed \/ cursor.position >= Len(cursor.handles) THEN UNCHANGED vars
       ELSE /\ cursor' = [cursor EXCEPT !.position = @ + 1]
            /\ UNCHANGED <<storeOthers, storeDocuments, freeSlots, handles,
                           storeIndexes, storeVersion, inserts, written>>

\* a + b on Go's int: the sum wraps around past MaxInt and below MinInt
addInt(a, b) ==
    IF b > 0 /\ a > MaxInt - b THEN (a - MaxInt - 1) + (b - MaxInt - 1)
    ELSE IF b < 0 /\ a < MinInt - b THEN (a + MaxInt + 1) + (b + MaxInt + 1)
    ELSE a + b

\* the position sc.Advance(count) moves to
newPositionOf(sc, count) ==
    IF addInt(sc.position, count) < 0 THEN 0
    ELSE IF addInt(sc.position, count) >= Len(sc.handles) THEN Len(sc.handles) - 1
    ELSE addInt(sc.position, count)

\* what sc.Advance(count) returns
advanceResultOf(sc, count) ==
    IF sc.closed THEN [err |-> ErrStreamClosed, found |-> FALSE, data |-> EmptyDoc,
                       more |-> FALSE]
    ELSE IF Len(sc.handles) = 0
    THEN [err |-> ErrNone, found |-> FALSE, data |-> EmptyDoc, more |-> FALSE]
    ELSE IF getDocumentOf(sc, newPositionOf(sc, count)).err # ErrNone
    THEN [err |-> getDocumentOf(sc, newPositionOf(sc, count)).err, found |-> FALSE,
          data |-> EmptyDoc, more |-> FALSE]
    ELSE [err |-> ErrNone, found |-> TRUE,
          data |-> getDocumentOf(sc, newPositionOf(sc, count)).data,
          more |-> \/ count > 0 /\ newPositionOf(sc, count) < Len(sc.handles) - 1
                   \/ count < 0 /\ newPositionOf(sc, count) > 0]

\* sc after sc.Advance(count)
advanceOf(sc, count) ==
    IF sc.closed \/ Len(sc.handles) = 0 THEN sc
    ELSE [sc EXCEPT !.position = newPositionOf(sc, count)]

newPosition(count) == newPositionOf(cursor, count)
AdvanceResult(count) == advanceResultOf(cursor, count)

\* StoreCursor.Advance(count)
CursorAdvance(count) ==
    /\ cursor.made
    /\ IF cursor.closed \/ Len(cursor.handles) = 0 THEN UNCHANGED vars
       ELSE /\ cursor' = [cursor EXCEPT !.position = newPosition(count)]
            /\ UNCHANGED <<storeOthers, storeDocuments, freeSlots, handles,
                           storeIndexes, storeVersion, inserts, written>>

\* sc.Previous()
previousResultOf(sc) == advanceResultOf(sc, 0 - 1)

\* a Reset that does not look at sc.closed
resetErrOfAnyCursor(sc) == ErrNone

\* sc.Reset(): the error, and sc afterwards
resetErrOf(sc) == IF sc.closed THEN ErrStreamClosed ELSE ErrNone
resetOf(sc) == IF sc.closed THEN sc ELSE [sc EXCEPT !.position = 0]

\* sc.Count()
countOf(sc) == IF sc.closed \/ sc.handles = <<>> THEN 0 ELSE Len(sc.handles)

\* sc.Close(): the error, and sc afterwards
closeErrOf(sc) == ErrNone
closeOf(sc) == IF sc.closed THEN sc ELSE [sc EXCEPT !.closed = TRUE, !.handles = <<>>]

\* sc.Clone(): a new struct with the fields of sc
cloneOf(sc) ==
    IF sc.closed THEN [made |-> TRUE, handles |-> <<>>, position |-> 0, closed |-> TRUE]
    ELSE [made |-> TRUE, handles |-> sc.handles, position |-> sc.position,
          closed |-> FALSE]

\* a Close that empties the slice both cursors share
bothAfterCloseClearing(which) ==
    IF which = "cursor"
    THEN [cursor |-> closeOf(cursor), clone |-> [clone EXCEPT !.handles = <<>>]]
    ELSE [cursor |-> [cursor EXCEPT !.handles = <<>>], clone |-> closeOf(clone)]

\* the two cursors after Close on one of them: Close assigns nil to the handles field
\* of its own struct and leaves the slice the other one holds as it is
bothAfterClose(which) ==
    IF which = "cursor" THEN [cursor |-> closeOf(cursor), clone |-> clone]
    ELSE [cursor |-> cursor, clone |-> closeOf(clone)]

\* cursor.Clone()
CursorClone ==
    /\ cursor.made /\ ~clone.made
    /\ clone' = cloneOf(cursor)
    /\ UNCHANGED <<limit, locks, collVars, streamVars, storeDocuments, freeSlots, handles,
                   storeIndexes, storeVersion, inserts, calls, storeClosed, cursor, written>>

CursorReset ==
    /\ cursor.made
    /\ cursor' = resetOf(cursor)
    /\ UNCHANGED <<storeOthers, storeDocuments, freeSlots, handles, storeIndexes,
                   storeVersion, inserts, written>>

CursorClose ==
    /\ cursor.made
    /\ cursor' = bothAfterClose("cursor").cursor
    /\ clone' = bothAfterClose("cursor").clone
    /\ UNCHANGED <<limit, locks, collVars, streamVars, storeDocuments, freeSlots, handles,
                   storeIndexes, storeVersion, inserts, calls, storeClosed, written>>

\* Next, Advance and Reset on the clone
CloneMove(sc) ==
    /\ clone.made
    /\ clone' = sc
    /\ UNCHANGED <<limit, locks, collVars, streamVars, storeDocuments, freeSlots, handles,
                   storeIndexes, storeVersion, inserts, calls, storeClosed, cursor, written>>

CloneClose ==
    /\ clone.made
    /\ cursor' = bothAfterClose("clone").cursor
    /\ clone' = bothAfterClose("clone").clone
    /\ UNCHANGED <<limit, locks, collVars, streamVars, storeDocuments, freeSlots, handles,
                   storeIndexes, storeVersion, inserts, calls, storeClosed, written>>

(* ----------------------- locks of the collection ----------------------- *)
\* the goroutines that call the collection, and the document entries they lock
Goroutines == 1..MaxGoroutines
LockDocs == 1..MaxLockDocs

\* Collection.mu, Collection.txmu, Collection.gcMu, documentEntry.mu, fieldIndex.mu
Mu == [kind |-> "mu", id |-> 0]
Txmu == [kind |-> "txmu", id |-> 0]
GcMu == [kind |-> "gcMu", id |-> 0]
EntryMu(d) == [kind |-> "entry", id |-> d]
IndexMu == [kind |-> "index", id |-> 0]

\* body between Lock and Unlock, between RLock and RUnlock
Locked(l, body) == <<[op |-> "Lock", lock |-> l]>> \o body \o <<[op |-> "Unlock", lock |-> l]>>
RLocked(l, body) ==
    <<[op |-> "RLock", lock |-> l]>> \o body \o <<[op |-> "RUnlock", lock |-> l]>>

\* the loop bodies body(o[i]), one after the other
RECURSIVE concat(_)
concat(programs) ==
    IF programs = <<>> THEN <<>> ELSE Head(programs) \o concat(Tail(programs))

forEach(o, body(_)) == concat([i \in 1..Len(o) |-> body(o[i])])

\* insertDocument, updateDocument, deleteDocument: fi.mu when the key values ask for it
indexLocks(touched) == IF touched THEN Locked(IndexMu, <<>>) ELSE <<>>

\* a read that asks for c.mu while it holds the entry
readLocksNested(d) == RLocked(EntryMu(d), RLocked(Mu, <<>>))

\* Collection.read: c.mu released before entry.mu is taken
readLocks(d) == RLocked(Mu, <<>>) \o RLocked(EntryMu(d), <<>>)

\* Transaction.ReadAll: the entries in the order of the map, under c.mu
readAllLocks(o) == RLocked(Mu, forEach(o, LAMBDA d : RLocked(EntryMu(d), <<>>)))

\* Transaction.Stream: as ReadAll; the producer goroutine takes no lock
streamLocks(o) == RLocked(Mu, forEach(o, LAMBDA d : RLocked(EntryMu(d), <<>>)))

\* Transaction.FindByIndex: the registry, the index, then Read of every id found
findByIndexLocks(found) ==
    RLocked(Mu, <<>>) \o RLocked(IndexMu, <<>>) \o forEach(found, readLocks)

\* Collection.applyWrite: a new entry is not locked, an old one is
applyWriteLocks(w) ==
    IF w.new THEN indexLocks(w.touched)
    ELSE Locked(EntryMu(w.id), indexLocks(w.touched))

\* Transaction.close: endTransaction
closeLocks == Locked(Txmu, <<>>)

\* Collection.startTransaction
startLocks == Locked(Txmu, <<>>)

\* Transaction.Commit of a read-write transaction: Collection.write, then close
commitLocks(ws) == Locked(Mu, forEach(ws, applyWriteLocks)) \o closeLocks

\* Collection.CreateIndex: every entry, and the new index for the entries in touched
createIndexLocks(o, touched) ==
    Locked(Mu, forEach(o, LAMBDA d : RLocked(EntryMu(d), indexLocks(d \in touched))))

\* Collection.DropIndex
dropIndexLocks == Locked(Mu, <<>>)

\* Collection.garbageCollect: cleanupVersionChain under the entry lock
garbageCollectLocks(o, touched) ==
    Locked(GcMu,
           RLocked(Txmu, <<>>)
           \o Locked(Mu, forEach(o, LAMBDA d : Locked(EntryMu(d),
                                                         indexLocks(d \in touched)))))

\* the writes of a transaction as applyWrite sees them
LockWrites == [new : BOOLEAN, id : LockDocs, touched : BOOLEAN]
WriteLists == {<<>>} \cup {<<w>> : w \in LockWrites}

\* the lock programs of the calls a goroutine can make
Programs ==
    {readLocks(d) : d \in LockDocs}
    \cup {readAllLocks(o) : o \in Orders(LockDocs)}
    \cup {streamLocks(o) : o \in Orders(LockDocs)}
    \cup UNION {{findByIndexLocks(o) : o \in Orders(S)} : S \in SUBSET LockDocs}
    \cup {commitLocks(ws) : ws \in WriteLists}
    \cup {closeLocks, startLocks, dropIndexLocks}
    \cup UNION {{createIndexLocks(o, S) : o \in Orders(LockDocs)} : S \in SUBSET LockDocs}
    \cup UNION {{garbageCollectLocks(o, S) : o \in Orders(LockDocs)} : S \in SUBSET LockDocs}

\* no call in progress, no lock held
NoLocks == [prog |-> [g \in Goroutines |-> <<>>], held |-> [g \in Goroutines |-> <<>>]]

\* the goroutines that hold l, or have announced their Lock of l, in one of the modes
Holders(l, modes) ==
    {g \in Goroutines :
        \E i \in 1..Len(locks.held[g]) :
            locks.held[g][i].lock = l /\ locks.held[g][i].mode \in modes}

\* rw.Lock() has announced itself and waits for the readers to leave
Announced(g, l) ==
    /\ locks.held[g] # <<>>
    /\ locks.held[g][Len(locks.held[g])] = [lock |-> l, mode |-> "P"]

\* the goroutines the next lock operation of g has to wait for
WaitsFor(g) ==
    IF locks.prog[g] = <<>> THEN {}
    ELSE LET next == Head(locks.prog[g])
         IN  IF next.op = "RLock" THEN Holders(next.lock, {"W", "P"})
             ELSE IF next.op = "Lock"
             THEN IF Announced(g, next.lock) THEN Holders(next.lock, {"R"})
                  ELSE Holders(next.lock, {"W", "P"})
             ELSE {}

\* held[g] without its latest entry for l
RECURSIVE release(_, _)
release(held, l) ==
    IF held = <<>> THEN <<>>
    ELSE IF held[Len(held)].lock = l THEN SubSeq(held, 1, Len(held) - 1)
    ELSE Append(release(SubSeq(held, 1, Len(held) - 1), l), held[Len(held)])

\* a goroutine calls the collection
LockCall(g, program) ==
    /\ locks.prog[g] = <<>>
    /\ locks' = [locks EXCEPT !.prog[g] = program]
    /\ UNCHANGED <<limit, collVars, streamVars, storeVars>>

\* sync.RWMutex and sync.Mutex: RLock waits for a writer that holds the lock or has
\* announced itself; Lock announces itself, then waits for the readers
LockStep(g) ==
    /\ locks.prog[g] # <<>>
    /\ WaitsFor(g) = {}
    /\ LET next == Head(locks.prog[g])
           held == locks.held[g]
       IN  locks' =
             IF next.op = "RLock"
             THEN [locks EXCEPT !.prog[g] = Tail(@),
                                !.held[g] = Append(@, [lock |-> next.lock, mode |-> "R"])]
             ELSE IF next.op = "Lock"
             THEN IF Announced(g, next.lock)
                  THEN [locks EXCEPT !.prog[g] = Tail(@),
                                     !.held[g][Len(held)].mode = "W"]
                  ELSE IF Holders(next.lock, {"R"}) = {}
                  THEN [locks EXCEPT !.prog[g] = Tail(@),
                                     !.held[g] = Append(@, [lock |-> next.lock, mode |-> "W"])]
                  ELSE [locks EXCEPT !.held[g] =
                                         Append(@, [lock |-> next.lock, mode |-> "P"])]
             ELSE [locks EXCEPT !.prog[g] = Tail(@), !.held[g] = release(@, next.lock)]
    /\ UNCHANGED <<limit, collVars, streamVars, storeVars>>

(* --------------------------- specification ----------------------------- *)
NoDocuments == [d \in {} |-> <<>>]

Limit(maxTxn, maxOpen, maxTime, maxDocs, maxWrites, maps) ==
    [txn |-> maxTxn, open |-> maxOpen, time |-> maxTime, docs |-> maxDocs,
     writes |-> maxWrites, maps |-> maps, buffer |-> MaxBuffer, next |-> MaxNext,
     versions |-> MaxVersion, advance |-> MaxAdvance, calls |-> MaxCalls]

\* no Transaction.Stream call yet
NoStream == [made |-> FALSE, cap |-> 0, results |-> <<>>, resultsClosed |-> FALSE,
             errorsClosed |-> FALSE, cancelled |-> FALSE]
NoProducer == [pc |-> "none", i |-> 0, docs |-> <<>>]
StreamUnused ==
    /\ locks = NoLocks
    /\ ds = NoStream
    /\ producer = NoProducer
    /\ consumer = "idle"
    /\ out = <<>>

\* no Store.Read or Store.ReadIndex call yet
NoCursor == [made |-> FALSE, handles |-> <<>>, position |-> 0, closed |-> FALSE]

\* NewStore()
NewStore ==
    /\ storeDocuments = <<>>
    /\ freeSlots = <<>>
    /\ handles = NoHandles
    /\ storeIndexes = NoIndexes
    /\ storeVersion = 0
    /\ inserts = {}
    /\ calls = NoCalls
    /\ storeClosed = [closed |-> FALSE, returned |-> FALSE]
    /\ cursor = NoCursor
    /\ clone = NoCursor
    /\ written = NothingWritten

\* NewCollection()
NewCollection ==
    /\ now = 1
    /\ currentTxnID = 0
    /\ activeTxns = {}
    /\ txns = <<>>
    /\ documents = NoDocuments
    /\ indexes = NoIndexes
    /\ nextDoc = 0
    /\ lastGCTime = 1
    /\ gcSpawned = 0
    /\ gc = [pc |-> "idle", oldest |-> 0]

Init ==
    /\ NewCollection /\ StreamUnused /\ NewStore
    /\ limit = Limit(MaxTxn, MaxOpen, MaxTime, MaxDocs, MaxWrites, {EmptyDoc, DocA(1)})

\* NewCollection() followed by CreateIndex("idx", ["a"])
InitIdx ==
    /\ now = 1
    /\ currentTxnID = 0
    /\ activeTxns = {}
    /\ txns = <<>>
    /\ documents = NoDocuments
    /\ indexes = [n \in {"idx"} |-> newFieldIndex(<<"a">>)]
    /\ nextDoc = 0
    /\ lastGCTime = 1
    /\ gcSpawned = 0
    /\ gc = [pc |-> "idle", oldest |-> 0]
    /\ limit = Limit(TxnMaxTxn, TxnMaxOpen, TxnMaxTime, TxnMaxDocs, TxnMaxWrites, Docs)
    /\ StreamUnused /\ NewStore

\* the calls of the transaction API, and the clock
TxnStep ==
    \/ \E mode \in {TxR, TxRW} : StartTransaction(mode)
    \/ \E t \in Started, arg \in DataArgs(limit.maps) : Create(t, arg)
    \/ \E t \in Started, id \in DocIds, arg \in DataArgs(limit.maps) : Update(t, id, arg)
    \/ \E t \in Started, id \in DocIds : Delete(t, id)
    \/ \E t \in Started : Rollback(t)
    \/ \E t \in Started : CommitBegin(t)
    \/ \E t \in Started : CommitWrite(t)
    \/ \E t \in Started : CommitClose(t)
    \/ Tick

Next ==
    \/ TxnStep
    \/ GCBegin
    \/ GCSweep
    \/ \E name \in IndexNames, fields \in FieldLists : CreateIndex(name, fields)
    \/ \E name \in IndexNames : DropIndex(name)

Spec == Init /\ [][Next]_vars

SpecTxn == InitIdx /\ [][TxnStep]_vars

\* NewCollection() followed by CreateIndex("idx", ["a"]), with callers that change
\* the maps they hold
InitShared ==
    /\ now = 1
    /\ currentTxnID = 0
    /\ activeTxns = {}
    /\ txns = <<>>
    /\ documents = NoDocuments
    /\ indexes = [n \in {"idx"} |-> newFieldIndex(<<"a">>)]
    /\ nextDoc = 0
    /\ lastGCTime = 1
    /\ gcSpawned = 0
    /\ gc = [pc |-> "idle", oldest |-> 0]
    /\ limit = Limit(SharedMaxTxn, SharedMaxOpen, SharedMaxTime, SharedMaxDocs,
                     SharedMaxWrites, {DocA(1), DocA(2)})
    /\ StreamUnused /\ NewStore

CallerStep ==
    \E via \in Vias : \E ref \in HeldMaps(via), m \in limit.maps : Mutate(via, ref, m)

SpecShared == InitShared /\ [][TxnStep \/ CallerStep]_vars

\* NewCollection(); transactions, then one Transaction.Stream and its consumer
InitStream ==
    /\ NewCollection /\ StreamUnused /\ NewStore
    /\ limit = Limit(StreamMaxTxn, StreamMaxOpen, StreamMaxTime, StreamMaxDocs,
                     StreamMaxWrites, {DocA(1)})

StreamStep ==
    \/ \E t \in Started, bufferSize \in 0..limit.buffer : Stream(t, bufferSize)
    \/ Produce
    \/ CloseErrors
    \/ CloseResults
    \/ Next_
    \/ Close

SpecStream == InitStream /\ [][TxnStep \/ StreamStep]_vars

\* NewStore()
InitStore ==
    /\ NewCollection /\ StreamUnused /\ NewStore
    /\ limit = Limit(0, 0, 1, 0, 0, Docs)

\* the calls that change the store
StoreMutation ==
    \/ \E arg \in DataArgs(limit.maps) : StoreInsertBegin(arg)
    \/ \E call \in inserts : StoreInsertEnd(call)
    \/ \E docID \in 1..storeVersion, arg \in DataArgs(limit.maps) : StoreUpdate(docID, arg)
    \/ \E docID \in 1..storeVersion : StoreDelete(docID)
    \/ \E indexName \in IndexNames, fields \in StoreFieldLists :
          StoreCreateIndex(indexName, fields)
    \/ \E indexName \in IndexNames : StoreDropIndex(indexName)

\* the counts Advance is called with: the small ones, the least and the greatest int
AdvanceCounts(n) == (0 - n)..n \cup {MinInt, MaxInt}

\* the calls that make and move the cursor
CursorStep ==
    \/ StoreRead
    \/ \E indexName \in IndexNames : StoreReadIndex(indexName)
    \/ CursorNext
    \/ \E count \in AdvanceCounts(limit.advance) : CursorAdvance(count)

SpecStore == InitStore /\ [][StoreMutation \/ CursorStep]_vars

SpecStoreIndex == InitStore /\ [][StoreMutation]_vars

\* Insert, and Update and Delete calls made from goroutines
StoreRaceStep ==
    \/ \E arg \in DataArgs(limit.maps) : StoreInsertBegin(arg)
    \/ \E call \in inserts : StoreInsertEnd(call)
    \/ \E docID \in 1..storeVersion, arg \in DataArgs(limit.maps) : StoreUpdateBegin(docID, arg)
    \/ \E docID \in 1..storeVersion : StoreDeleteBegin(docID)
    \/ \E call \in calls.pending : StoreCallEnd(call)

SpecStoreRace == InitStore /\ [][StoreRaceStep]_vars

\* Get calls made from goroutines, among Insert and Delete calls
StoreGetStep ==
    \/ \E arg \in DataArgs(limit.maps) : StoreInsertBegin(arg)
    \/ \E call \in inserts : StoreInsertEnd(call)
    \/ \E docID \in 1..storeVersion : StoreDelete(docID)
    \/ \E docID \in 1..storeVersion : StoreGetBegin(docID)
    \/ \E call \in calls.pending : StoreGetEnd(call)

SpecStoreGet == InitStore /\ [][StoreGetStep]_vars

\* Insert, Update and Delete on the store, and every call on a cursor and its clone
CursorsStep ==
    \/ \E arg \in DataArgs(limit.maps) : StoreInsertBegin(arg)
    \/ \E call \in inserts : StoreInsertEnd(call)
    \/ \E docID \in 1..storeVersion, arg \in DataArgs(limit.maps) : StoreUpdate(docID, arg)
    \/ \E docID \in 1..storeVersion : StoreDelete(docID)
    \/ StoreRead
    \/ CursorNext
    \/ \E count \in AdvanceCounts(limit.advance) : CursorAdvance(count)
    \/ CursorReset
    \/ CursorClose
    \/ CursorClone
    \/ CloneMove(nextOf(clone))
    \/ \E count \in AdvanceCounts(limit.advance) : CloneMove(advanceOf(clone, count))
    \/ CloneMove(resetOf(clone))
    \/ CloneClose

SpecCursors == InitStore /\ [][CursorsStep]_vars

\* one Store.Close call among the other calls
StoreCloseStep ==
    \/ StoreCloseBegin
    \/ StoreCloseEnd

SpecStoreClose == InitStore /\ [][StoreMutation \/ CursorStep \/ StoreCloseStep]_vars

InitStoreStream ==
    /\ NewCollection /\ StreamUnused /\ NewStore
    /\ limit = [Limit(0, 0, 1, 0, 0, {DocA(1)}) EXCEPT !.next = StoreMaxNext]

StoreStreamStep ==
    \/ \E arg \in DataArgs(limit.maps) : StoreInsertBegin(arg)
    \/ \E call \in inserts : StoreInsertEnd(call)
    \/ \E docID \in 1..storeVersion, arg \in DataArgs(limit.maps) : StoreUpdate(docID, arg)
    \/ \E docID \in 1..storeVersion : StoreDelete(docID)
    \/ StoreCloseBegin
    \/ StoreCloseEnd
    \/ \E bufferSize \in 0..limit.buffer : StoreStream(bufferSize)
    \/ StoreSendErr
    \/ StoreProduce
    \/ StoreCloseErrors
    \/ StoreCloseResults
    \/ StoreNext

SpecStoreStream == InitStoreStream /\ [][StoreStreamStep]_vars

\* NewCollection() and NewStore(), each taking any field list in CreateIndex
InitCreateIndex ==
    /\ NewCollection /\ StreamUnused /\ NewStore
    /\ limit = [Limit(IndexMaxTxn, IndexMaxTxn, IndexMaxTime, IndexMaxDocs, IndexMaxWrites,
                      {EmptyDoc, DocA(1)}) EXCEPT !.versions = IndexMaxVersion]

CreateIndexStep ==
    \/ \E name \in IndexNames, fields \in AnyFieldLists : CreateIndex(name, fields)
    \/ \E name \in IndexNames : DropIndex(name)
    \/ \E arg \in DataArgs(limit.maps) : StoreInsertBegin(arg)
    \/ \E call \in inserts : StoreInsertEnd(call)
    \/ \E indexName \in IndexNames, fields \in StoreFieldLists :
          StoreCreateIndex(indexName, fields)
    \/ \E indexName \in IndexNames : StoreDropIndex(indexName)

SpecCreateIndex == InitCreateIndex /\ [][TxnStep \/ CreateIndexStep]_vars

LocksStep ==
    \/ \E g \in Goroutines, program \in Programs : LockCall(g, program)
    \/ \E g \in Goroutines : LockStep(g)

SpecLocks == Init /\ [][LocksStep]_vars

\* the stream was made by Store.Stream, not by Transaction.Stream
IsStoreStream == "refused" \in DOMAIN ds

\* a program that uses the collection, or a program that uses the Store
InitProducers ==
    /\ NewCollection /\ StreamUnused /\ NewStore
    /\ \/ limit = [Limit(StreamMaxTxn, StreamMaxOpen, StreamMaxTime, StreamMaxDocs,
                         StreamMaxWrites, {DocA(1)})
                      EXCEPT !.next = ClosingMaxNext, !.versions = 0]
       \/ limit = [Limit(0, 0, 1, 0, 0, {DocA(1)})
                      EXCEPT !.next = ClosingMaxNext, !.versions = ClosingMaxVersion]

\* the goroutine started by Transaction.Stream
CollectionProducer == ~IsStoreStream /\ (Produce \/ CloseErrors \/ CloseResults)

\* the goroutine started by Store.Stream
StoreProducer ==
    IsStoreStream /\ (StoreSendErr \/ StoreProduce \/ StoreCloseErrors \/ StoreCloseResults)

ProducersStep ==
    \/ \E arg \in DataArgs(limit.maps) : StoreInsertBegin(arg)
    \/ \E call \in inserts : StoreInsertEnd(call)
    \/ StoreCloseBegin
    \/ StoreCloseEnd
    \/ \E t \in Started, bufferSize \in 0..limit.buffer : Stream(t, bufferSize)
    \/ \E bufferSize \in 0..limit.buffer : StoreStream(bufferSize)
    \/ CollectionProducer
    \/ StoreProducer
    \/ ~IsStoreStream /\ Next_
    \/ ~IsStoreStream /\ Close
    \/ IsStoreStream /\ StoreNext
    \/ IsStoreStream /\ StoreStreamClose

\* a goroutine that can run is run: the producers are not starved; the consumer
\* is free never to call Next or Close
SpecProducers ==
    /\ InitProducers
    /\ [][TxnStep \/ ProducersStep]_vars
    /\ WF_vars(CollectionProducer)
    /\ WF_vars(StoreProducer)





(* ============================== claims ================================= *)
Open(t) == t \in Started /\ ~txns[t].closed
\* t is open and not inside Commit: its goroutine can call Read, Update, Delete
Running(t) == Open(t) /\ txns[t].pc = "run"
HeadOf(id) == documents[id][1]
\* the step is the critical section of w's Commit that installs its writes
Installs(w) == txns[w].pc = "write" /\ txns'[w].pc = "close"
\* the step is the sweep of garbageCollect
Sweeps == gc.pc = "sweep" /\ gc'.pc = "idle"
Buffered(t, id) == pendingWrite(txns[t].writes, id) # 0
LastWrite(t, id) == txns[t].writes[pendingWrite(txns[t].writes, id)]

\* TxnID of the transaction whose write Read(t, id) returns over docs, 0 if none
ReadFromIn(txn, docs, t, id) ==
    IF pendingWrite(txn.writes, id) # 0 THEN t
    ELSE IF id \notin DOMAIN docs THEN 0
    ELSE LET p == visibleFrom(docs[id], 1, t, txn.TxnTime)
         IN  IF p = 0 THEN 0 ELSE docs[id][p].createdTxnID

\* the results of reading the versions of greatest commit time below TxnTime
SnapshotResults(t, id) ==
    LET chain == IF id \in DOMAIN documents THEN documents[id] ELSE <<>>
        below == {i \in 1..Len(chain) : chain[i].committedTime > 0
                                         /\ chain[i].committedTime < txns[t].TxnTime}
        latest == {i \in below : \A j \in below :
                                    chain[j].committedTime <= chain[i].committedTime}
    IN  IF below = {} THEN {Result(ErrDocumentNotFound, EmptyDoc)}
        ELSE {IF chain[i].deleted THEN Result(ErrDocumentDeleted, EmptyDoc)
              ELSE Result(ErrNone, chain[i].data) : i \in latest}

(* C1: a transaction that buffers no writes reads the same result for an id  *)
(* before and after any other transaction's Commit installs its writes, and  *)
(* that result is the version of greatest commit time below its TxnTime.     *)
RepeatableSnapshotReads ==
    [][\A t \in Started, w \in Started, id \in DocIds :
          (w # t /\ Installs(w) /\ Running(t) /\ txns[t].writes = <<>>)
          => /\ ReadIn(txns'[t], documents', t, id) = Read(t, id)
             /\ Read(t, id) \in SnapshotResults(t, id)]_vars

(* C2: when W installs writes to two documents d1 and d2 in one Commit, no   *)
(* other transaction R reads a pre-W result for d1 (before the install) and  *)
(* W's value for d2 (after it).                                              *)
NoPartialCommitObserved ==
    [][\A w \in Started, r \in Started, d1 \in DocIds, d2 \in DocIds :
          (r # w /\ d1 # d2 /\ Installs(w) /\ Buffered(w, d1) /\ Buffered(w, d2)
           /\ Running(r))
          => ~(/\ ReadFromIn(txns[r], documents, r, d1) # w
               /\ ReadFromIn(txns'[r], documents', r, d2) = w)]_vars

(* C3: the sweep of garbageCollect leaves the result of Read(id) of every    *)
(* active transaction unchanged.                                             *)
GCKeepsReadableVersions ==
    [][Sweeps => \A t \in Started, id \in DocIds :
                    Running(t) => ReadIn(txns'[t], documents', t, id) = Read(t, id)]_vars

(* C4: with an index created on the empty collection and no sweep, an id is  *)
(* in the entry of key K iff the head version of its chain is not a          *)
(* tombstone and its key under the index is K; so it is in at most one entry.*)
IndexAgreesWithHeads ==
    \A n \in DOMAIN indexes :
        LET fi == indexes[n]
            keyOf(id) == extractKeyValues(fi.fields, HeadOf(id).data)
            indexed(id) == id \in DOMAIN documents /\ ~HeadOf(id).deleted /\ keyOf(id).ok
        IN  /\ \A k \in DOMAIN fi.tree : \A id \in fi.tree[k] :
                  indexed(id) /\ keyOf(id).values = k
            /\ \A id \in DOMAIN documents :
                  indexed(id) => id \in lookup(fi, keyOf(id).values)

\* a committed update moved an id from one key to another, beside a second id
IndexFollowedAnUpdate ==
    /\ "idx" \in DOMAIN indexes
    /\ \E id \in DOMAIN documents, other \in DOMAIN documents :
          LET chain == documents[id]
              fields == indexes["idx"].fields
          IN  /\ other # id /\ Len(chain) >= 2
              /\ ~chain[1].deleted /\ ~chain[2].deleted
              /\ extractKeyValues(fields, chain[1].data).ok
              /\ extractKeyValues(fields, chain[2].data).ok
              /\ extractKeyValues(fields, chain[1].data)
                     # extractKeyValues(fields, chain[2].data)
              /\ {id, other} \subseteq
                     lookup(indexes["idx"], extractKeyValues(fields, chain[1].data).values)

(* C5: the sweep of garbageCollect leaves lookup of every index and key      *)
(* unchanged.                                                                *)
IndexKeys == {<<1>>, <<2>>}
GCKeepsIndexes ==
    [][Sweeps => \A n \in DOMAIN indexes, k \in IndexKeys :
                    lookup(indexes'[n], k) = lookup(indexes[n], k)]_vars

(* C6: in every chain the committedTime values strictly decrease from the    *)
(* newest version to the oldest.                                             *)
MonotoneChains ==
    \A id \in DOMAIN documents : \A i \in 1..(Len(documents[id]) - 1) :
        documents[id][i].committedTime > documents[id][i + 1].committedTime

(* C7: when A commits a write to id with commit time T_A (the time is fixed  *)
(* once Commit has read the clock) and B has TxnTime > T_A, B.Read(id)       *)
(* returns A's write or one installed in the chain after it.                 *)
CommitsWith(a, id, time) ==
    \/ txns[a].pc = "write" /\ txns[a].commitTime = time /\ Buffered(a, id)
    \/ /\ id \in DOMAIN documents
       /\ \E i \in 1..Len(documents[id]) :
             documents[id][i].createdTxnID = a /\ documents[id][i].committedTime = time
ReadsAtOrAfter(b, id, a) ==
    /\ id \in DOMAIN documents
    /\ \E i \in 1..Len(documents[id]) :
          /\ documents[id][i].createdTxnID = a
          /\ visibleFrom(documents[id], 1, b, txns[b].TxnTime) \in 1..i
CommitVisibility ==
    \A a \in Started, b \in Started, id \in DocIds, time \in 1..now :
        (a # b /\ CommitsWith(a, id, time) /\ Running(b) /\ ~Buffered(b, id)
         /\ txns[b].TxnTime > time)
        => ReadsAtOrAfter(b, id, a)

(* C8: in an open transaction Read(id) returns the write buffered last for   *)
(* id (its data, or ErrDocumentDeleted for a delete), from the step that     *)
(* buffers it on, whatever other transactions commit.                        *)
ReadYourWrites ==
    [][\A t \in Started :
          (Running(t) /\ ~txns'[t].closed)
          => LET before == txns[t].writes
                 after == txns'[t].writes
                 appended == Len(after) = Len(before) + 1
                 w == after[Len(after)]
             IN  /\ appended => ReadIn(txns'[t], documents', t, w.id) =
                                   IF w.delete THEN Result(ErrDocumentDeleted, EmptyDoc)
                                   ELSE Result(ErrNone, w.data)
                 /\ \A id \in DocIds :
                       (Buffered(t, id) /\ (after = before \/ (appended /\ w.id # id)))
                       => ReadIn(txns'[t], documents', t, id) = Read(t, id)]_vars

\* a transaction buffered a put and then a delete of one id, and reads the delete
ReadTheLatestBufferedWrite ==
    \E t \in Started :
        /\ Running(t) /\ Len(txns[t].writes) = 2
        /\ txns[t].writes[1].id = txns[t].writes[2].id
        /\ ~txns[t].writes[1].delete /\ txns[t].writes[2].delete
        /\ Read(t, txns[t].writes[2].id) = Result(ErrDocumentDeleted, EmptyDoc)

(* C9: Update(id, data) with valid data succeeds when the last write the     *)
(* transaction buffered for id is a put and fails when it is a delete.       *)
UpdateSeesBuffer ==
    \A t \in Started, id \in DocIds :
        (Running(t) /\ txns[t].mode = TxRW /\ Buffered(t, id))
        => (UpdateErr(t, id, [isNil |-> FALSE, m |-> EmptyDoc]) = ErrNone
            <=> ~LastWrite(t, id).delete)

(* C10: Delete(id) succeeds when the last write the transaction buffered     *)
(* for id is a put and fails when it is a delete.                            *)
DeleteSeesBuffer ==
    \A t \in Started, id \in DocIds :
        (Running(t) /\ txns[t].mode = TxRW /\ Buffered(t, id))
        => (DeleteErr(t, id) = ErrNone <=> ~LastWrite(t, id).delete)

\* Commit or Rollback was called on t and has returned
Terminated(t) ==
    /\ t \in Started /\ txns[t].pc = "run"
    /\ \A a \in activeTxns : a.txnID # t
\* the versions of the chains of docs that transaction t created
VersionsBy(docs, t) ==
    UNION {{<<id, i>> : i \in {j \in 1..Len(docs[id]) : docs[id][j].createdTxnID = t}} :
              id \in DOMAIN docs}
ValidArg == [isNil |-> FALSE, m |-> EmptyDoc]

(* C11: after Commit or Rollback has returned on a transaction, Create,      *)
(* Update, Delete, Read, ReadAll, Exists, FindByIndex, FindByIndexRange,     *)
(* FindByIndexPrefix, Count, Stream and Commit return ErrTransactionClosed;  *)
(* no later step changes the transaction (its buffer stays empty, it never   *)
(* enters Commit again, Rollback does nothing) or adds a version it created  *)
(* to a chain.                                                               *)
ClosedAfterTerminal ==
    /\ [](\A t \in Started : Terminated(t) =>
            /\ CreateErr(t, ValidArg) = ErrTransactionClosed
            /\ CommitErr(t) = ErrTransactionClosed
            /\ StreamErr(t) = ErrTransactionClosed
            /\ ReadAll(t).err = ErrTransactionClosed
            /\ Count(t).err = ErrTransactionClosed
            /\ \A id \in DocIds :
                  /\ UpdateErr(t, id, ValidArg) = ErrTransactionClosed
                  /\ DeleteErr(t, id) = ErrTransactionClosed
                  /\ Read(t, id).err = ErrTransactionClosed
                  /\ Exists(t, id).err = ErrTransactionClosed
            /\ \A n \in IndexNames \cup {"none"}, k \in {<<1>>, <<2>>} :
                  /\ FindByIndex(t, n, k).err = ErrTransactionClosed
                  /\ FindByIndexRange(t, n, k, <<2>>).err = ErrTransactionClosed
                  /\ FindByIndexPrefix(t, n, k).err = ErrTransactionClosed)
    /\ [][\A t \in Started : Terminated(t) =>
              /\ txns'[t] = txns[t]
              /\ \A a \in activeTxns' : a.txnID # t
              /\ Cardinality(VersionsBy(documents', t))
                     <= Cardinality(VersionsBy(documents, t))]_vars

\* a transaction that committed a version is closed beside an open one
TerminatedAfterCommit ==
    \E t \in Started, r \in Started :
        /\ Terminated(t) /\ VersionsBy(documents, t) # {}
        /\ Running(r)

(* C12: a read-only transaction gets ErrReadOnlyTransaction from Create,     *)
(* Update and Delete, its buffer stays empty, it never enters                *)
(* Collection.write, no chain holds a version it created, and the step in    *)
(* which its Commit closes it changes no chain and no index.                 *)
ReadOnlyChangesNothing ==
    /\ [](\A t \in Started : txns[t].mode = TxR =>
            /\ txns[t].writes = <<>> /\ txns[t].pc = "run"
            /\ VersionsBy(documents, t) = {}
            /\ Open(t) =>
                  /\ \A arg \in DataArgs(Docs) :
                        /\ CreateErr(t, arg) = ErrReadOnlyTransaction
                        /\ \A id \in DocIds :
                              UpdateErr(t, id, arg) = ErrReadOnlyTransaction
                  /\ \A id \in DocIds : DeleteErr(t, id) = ErrReadOnlyTransaction)
    /\ [][\A t \in Started :
              (txns[t].mode = TxR /\ ~txns[t].closed /\ txns'[t].closed)
              => documents' = documents /\ indexes' = indexes]_vars

\* an open read-only transaction reads a committed document it may not update
ReadOnlySeesADocument ==
    \E t \in Started, id \in DocIds :
        /\ Running(t) /\ txns[t].mode = TxR
        /\ Read(t, id).err = ErrNone
        /\ UpdateErr(t, id, ValidArg) = ErrReadOnlyTransaction

\* the step appends a write to the buffer of t
Buffers(t) == Running(t) /\ Len(txns'[t].writes) = Len(txns[t].writes) + 1
\* the step is Rollback on the open read-write transaction t
RollsBack(t) == Running(t) /\ txns[t].mode = TxRW /\ txns'[t].closed

(* C13: a step that buffers a write of t (Create, Update, Delete) or rolls t *)
(* back changes no chain and no index and leaves the Read, ReadAll and       *)
(* FindByIndex results of every other transaction unchanged; after Rollback  *)
(* no chain holds a version created by t, and none is added later.           *)
BufferedWritesStayPrivate ==
    [][\A t \in Started :
          /\ (Buffers(t) \/ RollsBack(t)) =>
                /\ documents' = documents /\ indexes' = indexes
                /\ \A r \in Started \ {t} : Running(r) =>
                      /\ ReadAllIn(txns'[r], documents', r) = ReadAll(r)
                      /\ \A id \in DocIds :
                            ReadIn(txns'[r], documents', r, id) = Read(r, id)
                      /\ \A n \in IndexNames, k \in {<<1>>, <<2>>} :
                            FindByIndexIn(txns'[r], documents', indexes', r, n, k)
                               = FindByIndex(r, n, k)
          /\ RollsBack(t) => VersionsBy(documents', t) = {}
          /\ (Terminated(t) /\ VersionsBy(documents, t) = {})
                => VersionsBy(documents', t) = {}]_vars

\* a Create was rolled back (its id is in no chain and in no buffer) beside an
\* open transaction
RolledBackACreate ==
    /\ \E id \in 1..nextDoc :
          /\ id \notin DOMAIN documents
          /\ \A t \in Started : ~Buffered(t, id)
    /\ \E r \in Started : Running(r)

(* C14: lookupRange(min, max) returns exactly the ids of the entries whose   *)
(* key K satisfies min <= K <= max in the order of the index, the entry of   *)
(* key max included.                                                         *)
RangeIsInclusive ==
    \A n \in DOMAIN indexes, minValues \in IndexKeys, maxValues \in IndexKeys :
        lookupRange(indexes[n], minValues, maxValues) =
            UnionOf(indexes[n].tree,
                    {k \in DOMAIN indexes[n].tree :
                        ~Less(k, minValues) /\ ~Less(maxValues, k)})

\* the calls of Next that returned ErrStreamClosed
ClosedAt == {i \in 1..Len(out) : out[i].err = ErrStreamClosed}

(* C15: if Close is never called, the Next calls before the first            *)
(* ErrStreamClosed return the documents visible at Stream construction, each *)
(* once, for every buffer size and every speed of the consumer.              *)
StreamDeliversSnapshot ==
    (~ds.cancelled /\ ClosedAt # {}) =>
        LET first == CHOOSE i \in ClosedAt : \A j \in ClosedAt : i <= j
        IN  /\ \A i \in 1..(first - 1) : out[i].err = ErrNone
            /\ [i \in 1..(first - 1) |-> out[i].data] = producer.docs

(* C16: once Close has been called, a Next call that is pending in the       *)
(* select or made later returns ErrStreamClosed: no document, no other error.*)
NextAfterCloseIsClosed ==
    [][(ds'.cancelled /\ Len(out') = Len(out) + 1)
          => out'[Len(out')] = Result(ErrStreamClosed, EmptyDoc)]_vars

OpenCursor == cursor.made /\ ~cursor.closed
Positions == 0..(Len(cursor.handles) - 1)
Counts == (0 - MaxAdvance)..MaxAdvance
\* the document of position p (counted from 0) was deleted after the cursor was made
DeletedAt(p) == cursor.handles[p + 1].id \notin DOMAIN handles
NoDocumentBut(err) == [err |-> err, found |-> FALSE, data |-> EmptyDoc, more |-> FALSE]

(* C17: a position whose document was deleted after the cursor was made      *)
(* yields ErrDocumentDeleted and no data when Next or Advance visits it,     *)
(* also after later Inserts.                                                 *)
DeletedPositionsSayDeleted ==
    OpenCursor =>
        /\ (cursor.position \in Positions /\ DeletedAt(cursor.position))
              => NextResult = NoDocumentBut(ErrDocumentDeleted)
        /\ \A count \in Counts :
              (Positions # {} /\ DeletedAt(newPosition(count)))
              => AdvanceResult(count) = NoDocumentBut(ErrDocumentDeleted)

ReadIndexIsOrdered ==
    [][(~cursor.made /\ cursor'.made /\ written'.index # "") =>
          LET fields == storeIndexes[written'.index].fields
              keyAt(i) == extractKeyValues(fields, written'.snapshot[i]).values
          IN  \A i, j \in DOMAIN written'.snapshot :
                 i < j => ~Less(keyAt(j), keyAt(i))]_vars

(* C20: when no Insert is in flight, for every index and key K, Lookup       *)
(* returns exactly the stored documents whose data has every indexed field   *)
(* present and non-nil with values K.                                        *)
StoreIndexIsExact ==
    inserts = {} =>
        \A n \in DOMAIN storeIndexes, k \in IndexKeys :
            StoreLookup(n, k).ids =
                {d \in DOMAIN written.docs :
                    extractKeyValues(storeIndexes[n].fields, written.docs[d])
                        = [ok |-> TRUE, values |-> k]}

\* two documents under one key, one of them moved there by an Update, and a
\* stored document that is in no entry
LookupAfterAnUpdate ==
    /\ inserts = {} /\ "idx" \in DOMAIN storeIndexes
    /\ \E d1 \in DOMAIN handles, d2 \in DOMAIN handles :
          /\ d1 # d2
          /\ {d1, d2} \subseteq StoreLookup("idx", <<1>>).ids
          /\ StoreGet(d2).version # d2

\* the step is a Collection.CreateIndex that registers the index n
Creates(n) == n \notin DOMAIN indexes /\ n \in DOMAIN indexes'

(* C21: right after Collection.CreateIndex returns, the new index holds an   *)
(* id under key K iff the head version of its chain is not a tombstone and   *)
(* has every indexed field non-nil with values K; a document whose head is a *)
(* delete is in no entry.                                                    *)
BackfillFromHeads ==
    [][\A n \in IndexNames : Creates(n) =>
          LET fi == indexes'[n]
              keyOf(id) == extractKeyValues(fi.fields, HeadOf(id).data)
          IN  \A id \in DOMAIN documents, k \in IndexKeys :
                 id \in lookup(fi, k)
                    <=> (~HeadOf(id).deleted /\ keyOf(id) = [ok |-> TRUE, values |-> k])]_vars

(* C22: once Store.Close has returned, Insert, Update, Delete, Get,          *)
(* CreateIndex, DropIndex, Lookup, LookupRange, Read, ReadIndex and Clone    *)
(* return ErrStoreClosed, and no call started afterwards changes documents,  *)
(* handles, indexes or the version counter.                                  *)
ClosedStoreRefuses ==
    /\ [](storeClosed.returned =>
            /\ StoreReadErr = ErrStoreClosed /\ StoreCloneErr = ErrStoreClosed
            /\ \A arg \in DataArgs(Docs) : StoreInsertErr(arg) = ErrStoreClosed
            /\ \A docID \in 1..MaxVersion :
                  /\ StoreDeleteErr(docID) = ErrStoreClosed
                  /\ StoreGet(docID).err = ErrStoreClosed
                  /\ \A arg \in DataArgs(Docs) : StoreUpdateErr(docID, arg) = ErrStoreClosed
            /\ \A n \in IndexNames \cup {"none"} :
                  /\ StoreDropIndexErr(n) = ErrStoreClosed
                  /\ StoreReadIndexErr(n) = ErrStoreClosed
                  /\ \A fields \in StoreFieldLists :
                        StoreCreateIndexErr(n, fields) = ErrStoreClosed
                  /\ \A k \in IndexKeys :
                        /\ StoreLookup(n, k).err = ErrStoreClosed
                        /\ \A max \in IndexKeys :
                              StoreLookupRange(n, k, max).err = ErrStoreClosed)
    /\ [][(storeClosed.returned /\ inserts \subseteq inserts') =>
             UNCHANGED <<storeDocuments, freeSlots, handles, storeIndexes, storeVersion>>]_vars

\* Close has returned on a store that held a document and had an index
ClosedWithDocuments ==
    /\ storeClosed.returned /\ inserts = {}
    /\ \E i \in DOMAIN storeDocuments : storeDocuments[i] # NilDocument
    /\ cursor.made /\ Len(cursor.handles) > 0

\* the step is a caller changing a map it passed to or received from the API
Mutates == \E via \in Vias : \E ref \in HeldMaps(via), m \in limit.maps : Mutate(via, ref, m)

(* C23: a caller changing a map it passed to Create or Update, or received   *)
(* from Read, ReadAll or Stream, changes neither what Read returns for any   *)
(* id in any transaction nor the data of any version in the chains.          *)
CallerMapsAreIsolated ==
    [][Mutates =>
          /\ documents' = documents
          /\ \A t \in Started, id \in DocIds :
                ReadIn(txns'[t], documents', t, id) = Read(t, id)]_vars

\* the Update calls on docID that returned nil
UpdatesOf(docID) ==
    {r \in calls.results : r.call.op = "Update" /\ r.call.docID = docID /\ r.err = ErrNone}
\* only the first Insert and Update calls on its document have been made, all of them
\* have returned nil, and no other call took a version
OnlyUpdatesOfTheFirst ==
    /\ 1 \in DOMAIN handles /\ inserts = {} /\ calls.pending = {}
    /\ calls.results = UpdatesOf(1)
    /\ storeVersion = 1 + Cardinality(UpdatesOf(1))

(* C24: on a store whose only document was inserted at version 1, once N     *)
(* Update calls on it made from goroutines have all returned nil, Get        *)
(* returns version N + 1 and the data of one of the N updates.               *)
UpdatesAreCounted ==
    (OnlyUpdatesOfTheFirst /\ UpdatesOf(1) # {}) =>
        /\ StoreGet(1).err = ErrNone
        /\ StoreGet(1).version = Cardinality(UpdatesOf(1)) + 1
        /\ StoreGet(1).data \in {r.call.arg.m : r \in UpdatesOf(1)}

\* two Update calls that were waiting for s.mu together have both returned nil
TwoRacingUpdatesReturned ==
    /\ OnlyUpdatesOfTheFirst
    /\ \E r1 \in UpdatesOf(1), r2 \in UpdatesOf(1) :
          /\ r2.call.n \in r1.overlapped
          /\ r1.call.arg # r2.call.arg

\* u and d are an Update and a Delete of one document that had a handle when each was
\* invoked, and one of them returned while the other was waiting for s.mu
Race(u, d) ==
    /\ u.call.op = "Update" /\ d.call.op = "Delete"
    /\ u.call.docID = d.call.docID
    /\ u.call.existed /\ d.call.existed /\ ~u.call.arg.isNil
    /\ (d.call.n \in u.overlapped \/ u.call.n \in d.overlapped)

(* C25: when an Update and a Delete of an existing document race, one of     *)
(* them returns nil and the other ErrDocumentNotFound; never both nil.       *)
OneOfUpdateAndDeleteWins ==
    \A u \in calls.results, d \in calls.results :
        Race(u, d) =>
            \/ u.err = ErrNone /\ d.err = ErrDocumentNotFound
            \/ d.err = ErrNone /\ u.err = ErrDocumentNotFound

\* min(max(position + count, 0), size - 1) over the integers, for 0 <= position <= size
Clamped(position, count, size) ==
    IF count >= (size - 1) - position THEN size - 1
    ELSE IF count <= 0 - position THEN 0
    ELSE position + count

(* C26: on an open cursor with a non-empty snapshot, Advance(count) moves to *)
(* min(max(position + count, 0), size - 1) for every int count and returns   *)
(* the document of that position if it is still stored; on an empty snapshot *)
(* it returns no document and keeps the position; position stays in          *)
(* [0, size].                                                                 *)
AdvanceClamps ==
    OpenCursor =>
        /\ cursor.position \in 0..Len(cursor.handles)
        /\ \A count \in AdvanceCounts(MaxAdvance) :
              IF Positions = {}
              THEN /\ AdvanceResult(count) = NoDocumentBut(ErrNone)
                   /\ ~ENABLED (CursorAdvance(count) /\ cursor' # cursor)
              ELSE LET target == Clamped(cursor.position, count, Len(cursor.handles))
                   IN  /\ newPosition(count) = target
                       /\ ~DeletedAt(target) =>
                             /\ AdvanceResult(count).found
                             /\ AdvanceResult(count).data =
                                    written.docs[cursor.handles[target + 1].id]

(* C27: Clone returns a cursor over the same snapshot at the position of the *)
(* original, closed if the original is closed; afterwards no Next, Advance,  *)
(* Reset or Close on one of the two changes position, snapshot or closed     *)
(* flag of the other.                                                         *)
CloneIsIndependent ==
    /\ [][(~clone.made /\ clone'.made) =>
             IF cursor.closed THEN clone'.closed
             ELSE /\ clone'.handles = cursor.handles
                  /\ clone'.position = cursor.position
                  /\ ~clone'.closed]_vars
    /\ [][clone.made => (cursor' = cursor \/ clone' = clone)]_vars

\* the original was closed after Clone and the clone still walks the snapshot
CloneOutlivesOriginal ==
    /\ clone.made /\ ~clone.closed /\ cursor.closed
    /\ Len(clone.handles) >= 2 /\ clone.position >= 1
    /\ nextResultOf(clone).found

\* Next, Previous, Advance and Reset fail on sc, Count is 0 and Close changes nothing
Refuses(sc) ==
    /\ nextResultOf(sc) = NoDocumentBut(ErrStreamClosed)
    /\ previousResultOf(sc) = NoDocumentBut(ErrStreamClosed)
    /\ \A count \in AdvanceCounts(MaxAdvance) :
          advanceResultOf(sc, count) = NoDocumentBut(ErrStreamClosed)
    /\ resetErrOf(sc) = ErrStreamClosed
    /\ nextOf(sc) = sc /\ resetOf(sc) = sc
    /\ \A count \in AdvanceCounts(MaxAdvance) : advanceOf(sc, count) = sc
    /\ countOf(sc) = 0
    /\ closeErrOf(sc) = ErrNone /\ closeOf(sc) = sc

(* C28: after Close on a cursor, Next, Previous, Advance and Reset on it     *)
(* return ErrStreamClosed, Count returns 0, a further Close returns nil, and *)
(* the cursor stays closed.                                                   *)
ClosedCursorRefuses ==
    /\ []((cursor.closed => Refuses(cursor)) /\ (clone.closed => Refuses(clone)))
    /\ [][(cursor.closed => cursor'.closed) /\ (clone.closed => clone'.closed)]_vars

\* a cursor over documents was closed after it had moved
ClosedAfterMoving ==
    /\ cursor.made /\ cursor.closed /\ cursor.position >= 1
    /\ Len(written.snapshot) >= 2

\* the Next calls of the store's stream that returned a document, and those that
\* returned ErrStreamClosed
Delivered == {i \in 1..Len(out) : out[i].err = ErrNone}
StoreClosedAt == {i \in 1..Len(out) : out[i].err = ErrStreamClosed}

(* C29: a stream made by Store.Stream on an open store and never closed       *)
(* returns each document the store held at the Stream call exactly once, with *)
(* the data it had then; ErrStreamClosed comes only after all of them, and    *)
(* every Next after an ErrStreamClosed returns ErrStreamClosed too, for every *)
(* buffer size including 0.                                                   *)
StoreStreamDeliversOnce ==
    (ds.made /\ ~ds.refused /\ ~ds.cancelled) =>
        /\ \A i \in 1..Len(out) : out[i].err \in {ErrNone, ErrStreamClosed}
        /\ \A i, j \in Delivered : i # j => out[i].doc.id # out[j].doc.id
        /\ \A i \in Delivered :
              IF out[i].doc.id \in DOMAIN ds.stored
              THEN out[i].doc.data = ds.stored[out[i].doc.id]
              ELSE out[i].doc.id \in ds.inserting
        /\ \A c \in StoreClosedAt :
              /\ \A d \in DOMAIN ds.stored :
                    \E i \in Delivered : i < c /\ out[i].doc.id = d
              /\ \A j \in (c + 1)..Len(out) : j \in StoreClosedAt

\* an unbuffered stream over two documents, drained: both documents, then
\* ErrStreamClosed twice
StreamDrainedTwice ==
    /\ ds.made /\ ~ds.refused /\ ~ds.cancelled /\ ds.cap = 0
    /\ Cardinality(DOMAIN ds.stored) = 2
    /\ Len(out) = 4
    /\ Cardinality(Delivered) = 2
    /\ StoreClosedAt = {3, 4}

(* C30: CreateIndex with an empty field list returns the empty-index error    *)
(* and registers no index, in Store.CreateIndex and in Collection.CreateIndex *)
(* of the MVCC collection alike.                                              *)
EmptyFieldListIsRejected ==
    [][\A name \in IndexNames :
          /\ (~storeClosed.closed /\ StoreCreateIndex(name, <<>>)) =>
                /\ StoreCreateIndexErr(name, <<>>) = ErrEmptyIndex
                /\ storeIndexes' = storeIndexes
          /\ CreateIndex(name, <<>>) =>
                /\ CreateIndexErr(name, <<>>) = ErrEmptyIndex
                /\ indexes' = indexes]_vars

\* a goroutine in a call that cannot take its next step
Blocked(g) == locks.prog[g] # <<>> /\ WaitsFor(g) # {}

\* registry lock, document-entry lock, index lock: 1, 2, 3; 0 for txmu and gcMu
LockRank(l) ==
    IF l.kind = "mu" THEN 1 ELSE IF l.kind = "entry" THEN 2 ELSE IF l.kind = "index" THEN 3
    ELSE 0

(* C31: no interleaving of Read, ReadAll, Stream, FindByIndex, Commit,       *)
(* Rollback, CreateIndex, DropIndex and garbageCollect on one collection     *)
(* reaches a state where goroutines wait for each other's locks forever, and *)
(* a goroutine that holds an entry or index lock never asks for the registry *)
(* lock, nor for an entry lock while it holds an index lock.                 *)
NoLockCycle ==
    /\ \A S \in SUBSET Goroutines \ {{}} :
          ~(\A g \in S : Blocked(g) /\ WaitsFor(g) \subseteq S)
    /\ \A g \in Goroutines :
          \A i, j \in 1..Len(locks.held[g]) :
              (i < j /\ LockRank(locks.held[g][i].lock) > 0
                     /\ LockRank(locks.held[g][j].lock) > 0)
                  => /\ LockRank(locks.held[g][i].lock) <= LockRank(locks.held[g][j].lock)
                     /\ locks.held[g][i].lock # locks.held[g][j].lock

\* garbageCollect or write holds the registry and has announced its Lock of an entry
\* that a Read still holds, while a third goroutine waits for the registry
WriterWaitsForReader ==
    \E g, h, k \in Goroutines :
        /\ g \in Holders(Mu, {"W"})
        /\ \E d \in LockDocs : Announced(g, EntryMu(d)) /\ h \in Holders(EntryMu(d), {"R"})
        /\ k \notin {g, h} /\ Blocked(k) /\ WaitsFor(k) = {g}

(* C32: when Next visits a position of an open cursor, its hasNext result is  *)
(* true iff a snapshot position remains after the visited one, also when the  *)
(* visited document was deleted and Next returns ErrDocumentDeleted.          *)
HasNextCountsRemaining ==
    (OpenCursor /\ cursor.position < Len(cursor.handles)) =>
        (NextResult.more <=> cursor.position + 1 < Len(cursor.handles))

\* the ids Read succeeds on in transaction t
Readable(t) == {id \in DocIds : Read(t, id).err = ErrNone}

(* C33: in an open transaction the keys of the ReadAll result are the ids on  *)
(* which Read succeeds at the same moment, each with the data Read returns,    *)
(* whatever the committed versions, tombstones and buffered puts and deletes   *)
(* are; Count is the number of these ids.                                      *)
ReadAllAgreesWithRead ==
    \A t \in Started :
        ~txns[t].closed =>
            /\ ReadAll(t).err = ErrNone
            /\ DOMAIN ReadAll(t).data = Readable(t)
            /\ \A id \in Readable(t) : ReadAll(t).data[id] = Read(t, id).data
            /\ Count(t) = Result(ErrNone, Cardinality(Readable(t)))

\* a buffered delete of a committed document followed by a buffered put for the
\* same id, next to another document
PutOverridesBufferedDelete ==
    \E t \in Started :
        /\ ~txns[t].closed
        /\ Len(txns[t].writes) = 2
        /\ txns[t].writes[1].id = txns[t].writes[2].id
        /\ txns[t].writes[1].delete /\ ~txns[t].writes[2].delete
        /\ Cardinality(Readable(t)) = 2

(* C34: once DocumentStream.Close has been called, the producer goroutine of  *)
(* the stream (of Store.Stream and of Transaction.Stream) stops and closes    *)
(* the results and errors channels, also when no Next is called any more and  *)
(* the results channel is full or unbuffered.                                 *)
ProducerStopsAfterClose ==
    (ds.made /\ ds.cancelled)
        ~> (producer.pc = "done" /\ ds.resultsClosed /\ ds.errorsClosed)

\* a Store stream over two documents, closed before any Next: the producer has
\* stopped with documents unsent
StoppedWithDocumentsUnsent ==
    /\ IsStoreStream /\ ds.cancelled /\ out = <<>>
    /\ producer.pc = "done" /\ ds.resultsClosed /\ ds.errorsClosed
    /\ Len(producer.docs) = 2 /\ producer.i <= 2

(* C35: every entry of the tree of a field index of the collection holds at    *)
(* least one document id, in every reachable state.                            *)
NoEmptyIndexEntries ==
    \A n \in DOMAIN indexes : \A k \in DOMAIN indexes[n].tree : indexes[n].tree[k] # {}

\* the only document under a key was deleted and the delete committed: the index
\* has lost the entry of that key
LastIdLeftTheEntry ==
    \E id \in DOMAIN documents :
        /\ Len(documents[id]) >= 2
        /\ documents[id][1].deleted
        /\ extractKeyValues(indexes["idx"].fields, documents[id][2].data).ok
        /\ extractKeyValues(indexes["idx"].fields, documents[id][2].data).values
               \notin DOMAIN indexes["idx"].tree

\* the TxnIDs in Collection.activeTxns
ActiveIDs == {a.txnID : a \in activeTxns}

ClosedStoreStaysEmpty ==
    storeClosed.returned => (handles = NoHandles /\ storeIndexes = NoIndexes)


\* the ids the tree of an index holds, over all its entries
inTree(fi) == UNION {fi.tree[k] : k \in DOMAIN fi.tree}

(* C38: the cursor ReadIndex(name) returns holds exactly the documents that  *)
(* are in the tree of the index at the time of the call, so a document an    *)
(* Update took out of the tree is not in it.                                 *)
ReadIndexSnapshotsTheTree ==
    [][(~cursor.made /\ cursor'.made /\ written'.index # "") =>
          {cursor'.handles[i].id : i \in DOMAIN cursor'.handles}
              = inTree(storeIndexes[written'.index])]_vars


(* C39: Commit on an open read-write transaction returns nil: no write it    *)
(* has buffered makes applyWrite return ErrDocumentNotFound, since a delete  *)
(* is buffered only for an id that has an entry and entries are not removed. *)
CommitReturnsNil ==
    \A t \in Started :
        (txns[t].mode = TxRW /\ ~txns[t].closed) =>
            write(documents, indexes, txns[t].writes, now).err = ErrNone

\* Commit is applying a delete of a document that another transaction has
\* deleted since the delete was buffered
CommitsDeleteOfDeleted ==
    \E t \in Started :
        /\ txns[t].pc = "write"
        /\ \E i \in DOMAIN txns[t].writes :
              /\ txns[t].writes[i].delete
              /\ documents[txns[t].writes[i].id][1].deleted


(* C40: Store.Get(id) returns no data and no version that was stored under   *)
(* another document id, however its steps interleave with Delete and Insert  *)
(* calls that free and reuse the slots of the collection.                    *)
GetReturnsItsOwnDocument ==
    \A r \in calls.results :
        (r.call.op = "Get" /\ r.err = ErrNone) => r.id = r.call.docID

====
